---------------------------- MODULE Spec2Model ----------------------------
(***************************************************************************)
(* Command Distribution Protocol of the network monitoring backend:       *)
(* the `commands` table (Backend/database.py), the admin handlers that     *)
(* enqueue directives (Backend/main.py), the poll handler that drains them *)
(* (Backend/routers/commands.py) and the derived blocked-domain state.     *)
(*                                                                         *)
(* Granularity: one step per database transaction (`with                   *)
(* self.get_connection()`), which is the only unit the code makes atomic.  *)
(* Time is the value of SQLite's datetime('now'): two rows written within  *)
(* the same clock value carry equal created_at.                            *)
(***************************************************************************)
EXTENDS Integers, Sequences, FiniteSets, TLC

\* ------------------------------------------------------------------ bounds
MaxCommands == 2      \* rows the commands table may hold in a run
MaxTime == 1          \* largest clock value of a run
MaxActivities == 2    \* rows the activities table may hold in a run

\* ------------------------------------------------------------------ inputs
StudentOrder == <<"PC01", "PC02">>     \* hostnames, in ORDER BY hostname order
Students == {StudentOrder[i] : i \in 1..Len(StudentOrder)}
Domains == {"youtube.com", "tube.com"}
Pollers == {1, 2}                      \* slots of concurrently running polls
NULL == "NULL"                         \* Python None / SQL NULL of a TEXT column
Falsy == {NULL, ""}                    \* the request values for which `not x` holds
Actions == {"BLOCK_DOMAIN", "UNBLOCK_DOMAIN", "PING"}
Hours == {0, 1}                        \* look-back windows, in clock units

VARIABLES
    commands,      \* the commands table: row id = index
    activities,    \* the activities table (hostname, timestamp)
    now,           \* the system clock read by datetime('now')
    poll,          \* per running poll request: position in get_commands
    issued,        \* history: every row as it was inserted
    deliveries,    \* history: per row, number of poll responses containing it
    drainedClean,  \* history: a poll of the student completed and no directive
                   \* was enqueued for the student since that poll read the table
    settings,      \* config.settings, as read from the environment at start
    snapshot,      \* the telemetry a student machine reports
    verdict,       \* what detector.check_violations returned for the snapshot
    verdict_member3, \* what the two-rule detector returned for the snapshot
    alerts,        \* the alerts table: row id = index
    response,      \* what POST /activity answered for the snapshot
    firewall,      \* per student machine: the names of its Windows Firewall rules
    resolves,      \* per running PATCH /alerts/{id}/resolve request: its position
                   \* and its answer
    policies       \* the content of policies.json

\* The violation detector and the alert pipeline.
detection == <<settings, snapshot, verdict, verdict_member3, alerts, response,
               resolves, policies>>

vars == <<commands, activities, now, poll, issued, deliveries, drainedClean,
          settings, snapshot, verdict, verdict_member3, alerts, response,
          firewall, resolves, policies>>

\* -------------------------------------------------------------- SQL helpers
\* Variant: the index is walked backwards.
IndexScan_descending(cmds, student_id) ==
    LET Reverse(q) == [i \in 1..Len(q) |-> q[Len(q) + 1 - i]]
    IN Reverse(SelectSeq(cmds, LAMBDA c : c.student_id = student_id /\ c.status = "pending"))
       \o Reverse(SelectSeq(cmds, LAMBDA c : c.student_id = student_id /\ c.status = "executed"))

\* Rows of `student_id` in the order the index idx_commands_student_status
\* (student_id, status, rowid) yields them: 'executed' < 'pending', then id.
IndexScan(cmds, student_id) ==
    SelectSeq(cmds, LAMBDA c : c.student_id = student_id /\ c.status = "executed")
    \o SelectSeq(cmds, LAMBDA c : c.student_id = student_id /\ c.status = "pending")

\* ORDER BY created_at ASC: SQLite's sorter keeps rows of equal key in the
\* order they were fed to it.
RECURSIVE OrderByCreatedAtAsc(_)
OrderByCreatedAtAsc(rows) ==
    IF rows = <<>> THEN <<>>
    ELSE LET n == Len(rows)
             head == OrderByCreatedAtAsc(SubSeq(rows, 1, n - 1))
             r == rows[n]
             k == Cardinality({i \in 1..Len(head) : head[i].created_at <= r.created_at})
         IN SubSeq(head, 1, k) \o <<r>> \o SubSeq(head, k + 1, Len(head))

\* ORDER BY created_at DESC, same treatment of equal keys.
RECURSIVE OrderByCreatedAtDesc(_)
OrderByCreatedAtDesc(rows) ==
    IF rows = <<>> THEN <<>>
    ELSE LET n == Len(rows)
             head == OrderByCreatedAtDesc(SubSeq(rows, 1, n - 1))
             r == rows[n]
             k == Cardinality({i \in 1..Len(head) : head[i].created_at >= r.created_at})
         IN SubSeq(head, 1, k) \o <<r>> \o SubSeq(head, k + 1, Len(head))

\* --------------------------------------------------------- Database methods
\* Variant: a row is refused while the pair (student, domain) has a pending one.
add_command_dedupe(cmds, student_id, action, domain, reason) ==
    IF \E i \in 1..Len(cmds) :
           /\ cmds[i].student_id = student_id
           /\ cmds[i].domain = domain
           /\ cmds[i].status = "pending"
    THEN cmds
    ELSE Append(cmds, [id |-> Len(cmds) + 1,
                       student_id |-> student_id,
                       action |-> action,
                       domain |-> domain,
                       reason |-> reason,
                       status |-> "pending",
                       created_at |-> now,
                       executed_at |-> {}])

\* INSERT INTO commands (...) VALUES (?, ?, ?, ?, 'pending'); id is
\* AUTOINCREMENT, created_at defaults to datetime('now'), executed_at to NULL.
add_command(cmds, student_id, action, domain, reason) ==
    Append(cmds, [id |-> Len(cmds) + 1,
                  student_id |-> student_id,
                  action |-> action,
                  domain |-> domain,
                  reason |-> reason,
                  status |-> "pending",
                  created_at |-> now,
                  executed_at |-> {}])

\* The columns get_pending_commands selects.
PendingColumns(c) ==
    [id |-> c.id, student_id |-> c.student_id, action |-> c.action,
     domain |-> c.domain, reason |-> c.reason, created_at |-> c.created_at]

\* Variant: ORDER BY created_at DESC.
get_pending_commands_desc(student_id) ==
    LET rows == SelectSeq(IndexScan(commands, student_id),
                          LAMBDA c : c.status = "pending")
        sorted == OrderByCreatedAtDesc(rows)
    IN [i \in 1..Len(sorted) |-> PendingColumns(sorted[i])]

\* Variant: pending rows time out once the clock has moved past created_at.
get_pending_commands_expiring(student_id) ==
    LET rows == SelectSeq(IndexScan(commands, student_id),
                          LAMBDA c : c.status = "pending" /\ c.created_at >= now)
        sorted == OrderByCreatedAtAsc(rows)
    IN [i \in 1..Len(sorted) |-> PendingColumns(sorted[i])]

\* Variant: the WHERE clause has no student_id = ?.
get_pending_commands_everyone(student_id) ==
    LET rows == SelectSeq(commands, LAMBDA c : c.status = "pending")
        sorted == OrderByCreatedAtAsc(rows)
    IN [i \in 1..Len(sorted) |-> PendingColumns(sorted[i])]

\* SELECT ... WHERE student_id = ? AND status = 'pending' ORDER BY created_at ASC
get_pending_commands(student_id) ==
    LET rows == SelectSeq(IndexScan(commands, student_id),
                          LAMBDA c : c.status = "pending")
        sorted == OrderByCreatedAtAsc(rows)
    IN [i \in 1..Len(sorted) |-> PendingColumns(sorted[i])]

\* Variant: the UPDATE sets executed_at and leaves status alone.
mark_command_executed_no_status(cmds, command_id) ==
    [cmds EXCEPT ![command_id].executed_at = {now}]

\* Variant: the UPDATE also overwrites created_at.
mark_command_executed_touch(cmds, command_id) ==
    [cmds EXCEPT ![command_id].status = "executed",
                 ![command_id].created_at = now,
                 ![command_id].executed_at = {now}]

\* Variant: the UPDATE marks every pending row of the row's student.
mark_command_executed_student(cmds, command_id) ==
    [i \in 1..Len(cmds) |->
        IF cmds[i].student_id = cmds[command_id].student_id /\ cmds[i].status = "pending"
        THEN [cmds[i] EXCEPT !.status = "executed", !.executed_at = {now}]
        ELSE cmds[i]]

\* UPDATE commands SET status = 'executed', executed_at = datetime('now')
\* WHERE id = ?
mark_command_executed(cmds, command_id) ==
    [cmds EXCEPT ![command_id].status = "executed",
                 ![command_id].executed_at = {now}]

\* Variant: ORDER BY id DESC LIMIT 1.
LastAction_by_id(student_id, domain) ==
    LET ids == {i \in 1..Len(commands) :
                   commands[i].student_id = student_id /\ commands[i].domain = domain}
    IN commands[CHOOSE i \in ids : \A j \in ids : j <= i].action

\* SELECT action ... WHERE student_id = ? AND domain = ?
\* ORDER BY created_at DESC LIMIT 1
LastAction(student_id, domain) ==
    LET rows == SelectSeq(IndexScan(commands, student_id),
                          LAMBDA c : c.domain = domain)
    IN Head(OrderByCreatedAtDesc(rows)).action

\* Variant: both queries carry AND status = 'executed'.
get_currently_blocked_domains_delivered(student_id) ==
    {d \in Domains :
        LET rows == SelectSeq(commands, LAMBDA c : /\ c.student_id = student_id
                                                  /\ c.domain = d
                                                  /\ c.status = "executed")
        IN rows # <<>> /\ Head(OrderByCreatedAtDesc(rows)).action = "BLOCK_DOMAIN"}

\* Variant: both queries carry AND status = 'pending'.
get_currently_blocked_domains_pending(student_id) ==
    {d \in Domains :
        LET rows == SelectSeq(commands, LAMBDA c : /\ c.student_id = student_id
                                                  /\ c.domain = d
                                                  /\ c.status = "pending")
        IN rows # <<>> /\ Head(OrderByCreatedAtDesc(rows)).action = "BLOCK_DOMAIN"}

\* The domains of the GROUP BY query, then the latest action of each.
get_currently_blocked_domains(student_id) ==
    LET grouped == {commands[i].domain : i \in
                      {j \in 1..Len(commands) :
                          /\ commands[j].student_id = student_id
                          /\ commands[j].domain # NULL}}
    IN {d \in grouped : LastAction(student_id, d) = "BLOCK_DOMAIN"}

\* Variant: the WHERE clause on the window is missing.
get_active_students_ever(hours) ==
    SelectSeq(StudentOrder, LAMBDA s : \E a \in activities : a.hostname = s)

\* SELECT DISTINCT hostname FROM activities
\* WHERE datetime(timestamp) >= datetime('now', '-' || ? || ' hours')
\* ORDER BY hostname
get_active_students(hours) ==
    SelectSeq(StudentOrder,
              LAMBDA s : \E a \in activities :
                             a.hostname = s /\ a.timestamp >= now - hours)

\* ------------------------------------------------------------ history
\* The columns of a row that an insertion fixes.
IssuedColumns(c) ==
    [id |-> c.id, student_id |-> c.student_id, action |-> c.action,
     domain |-> c.domain, reason |-> c.reason, created_at |-> c.created_at]

\* What inserting rows into the commands table does to the table and to the
\* history variables.
Enqueued(newCmds) ==
    LET fresh == (Len(commands) + 1)..Len(newCmds)
        to == {newCmds[i].student_id : i \in fresh}
    IN /\ commands' = newCmds
       /\ issued' = issued \o [k \in 1..(Len(newCmds) - Len(commands)) |->
                                  IssuedColumns(newCmds[Len(commands) + k])]
       /\ deliveries' = deliveries \o [k \in 1..(Len(newCmds) - Len(commands)) |-> 0]
       /\ drainedClean' = [s \in Students |-> IF s \in to THEN FALSE ELSE drainedClean[s]]
       /\ poll' = [p \in Pollers |->
                     IF poll[p].pc = "marking" /\ poll[p].student_id \in to
                     THEN [poll[p] EXCEPT !.clean = FALSE] ELSE poll[p]]

\* ------------------------------------------------------------ admin handlers
\* Variant: the check `if not student_id or not domain` is missing.
block_domain_on_student_unchecked(student_id, domain) ==
    /\ Len(commands) < MaxCommands
    /\ Enqueued(add_command(commands, student_id, "BLOCK_DOMAIN", domain,
                            "Admin policy violation"))
    /\ UNCHANGED <<activities, now, detection, firewall>>

\* POST /admin/block-domain
block_domain_on_student(student_id, domain) ==
    IF student_id \in Falsy \/ domain \in Falsy
    THEN UNCHANGED vars      \* HTTP 400, before any database call
    ELSE /\ Len(commands) < MaxCommands
         /\ Enqueued(add_command(commands, student_id, "BLOCK_DOMAIN", domain,
                                 "Admin policy violation"))
         /\ UNCHANGED <<activities, now, detection, firewall>>

\* POST /admin/unblock-domain
unblock_domain_on_student(student_id, domain) ==
    IF student_id \in Falsy \/ domain \in Falsy
    THEN UNCHANGED vars      \* HTTP 400, before any database call
    ELSE /\ Len(commands) < MaxCommands
         /\ Enqueued(add_command(commands, student_id, "UNBLOCK_DOMAIN", domain,
                                 "Admin unblock request"))
         /\ UNCHANGED <<activities, now, detection, firewall>>

\* What POST /admin/block-domain and POST /admin/unblock-domain answer when
\* they run in this state: HTTPException 400, or the success dictionary with
\* the id add_command returns.
block_domain_on_student_response(student_id, domain) ==
    IF student_id \in Falsy \/ domain \in Falsy
    THEN [status_code |-> 400, detail |-> "student_id and domain are required"]
    ELSE [status_code |-> 200, success |-> TRUE, command_id |-> Len(commands) + 1,
          student_id |-> student_id, domain |-> domain]

unblock_domain_on_student_response(student_id, domain) ==
    IF student_id \in Falsy \/ domain \in Falsy
    THEN [status_code |-> 400, detail |-> "student_id and domain are required"]
    ELSE [status_code |-> 200, success |-> TRUE, command_id |-> Len(commands) + 1,
          student_id |-> student_id, domain |-> domain]

\* The loop of create_global_command: one add_command per active student.
RECURSIVE AddForAll(_, _, _, _, _)
AddForAll(cmds, students, action, domain, reason) ==
    IF students = <<>> THEN cmds
    ELSE AddForAll(add_command(cmds, Head(students), action, domain, reason),
                   Tail(students), action, domain, reason)

\* Database.create_global_command
create_global_command(action, domain, reason, hours) ==
    LET active_students == get_active_students(hours)
    IN IF active_students = <<>>
       THEN UNCHANGED vars   \* "No active students found", commands_created 0
       ELSE /\ Len(commands) + Len(active_students) <= MaxCommands
            /\ Enqueued(AddForAll(commands, active_students, action, domain, reason))
            /\ UNCHANGED <<activities, now, detection, firewall>>

\* The dictionary create_global_command returns when it runs in this state.
create_global_command_result(action, domain, hours) ==
    LET active_students == get_active_students(hours)
    IN IF active_students = <<>>
       THEN [success |-> FALSE, commands_created |-> 0, students |-> <<>>]
       ELSE [success |-> TRUE, commands_created |-> Len(active_students),
             students |-> active_students]

\* ------------------------------------------------------------- poll handler
\* The {action, domain, reason} triples get_commands sends to the agent.
FormatCommands(rows) ==
    [i \in 1..Len(rows) |->
        [action |-> rows[i].action, domain |-> rows[i].domain,
         reason |-> rows[i].reason]]

Idle == [pc |-> "idle", student_id |-> NULL, commands |-> <<>>, i |-> 0,
         clean |-> FALSE]

\* Returning FormatCommands(rows) from get_commands: the history.
Returned(student_id, rows, clean) ==
    /\ deliveries' = [id \in 1..Len(deliveries) |->
                        IF \E i \in 1..Len(rows) : rows[i].id = id
                        THEN deliveries[id] + 1 ELSE deliveries[id]]
    /\ drainedClean' = [drainedClean EXCEPT ![student_id] = @ \/ clean]

\* GET /commands, up to and including db.get_pending_commands(student_id);
\* with nothing pending the loops are empty and the handler returns at once.
\* A new request takes the lowest free slot.
get_commands_select(p, student_id) ==
    /\ poll[p].pc = "idle"
    /\ \A q \in Pollers : q < p => poll[q].pc # "idle"
    /\ LET rows == get_pending_commands(student_id)
       IN IF rows = <<>>
          THEN /\ Returned(student_id, rows, TRUE)
               /\ UNCHANGED poll
          ELSE /\ poll' = [poll EXCEPT ![p] =
                              [pc |-> "marking", student_id |-> student_id,
                               commands |-> rows, i |-> 1, clean |-> TRUE]]
               /\ UNCHANGED <<deliveries, drainedClean>>
    /\ UNCHANGED <<commands, activities, now, issued, detection>>

\* One iteration of `for cmd in commands: db.mark_command_executed(cmd['id'])`;
\* after the last one the handler formats the rows it read and returns.
get_commands_mark(p) ==
    /\ poll[p].pc = "marking"
    /\ LET rows == poll[p].commands
           i == poll[p].i
       IN /\ commands' = mark_command_executed(commands, rows[i].id)
          /\ IF i = Len(rows)
             THEN /\ Returned(poll[p].student_id, rows, poll[p].clean)
                  /\ poll' = [poll EXCEPT ![p] = Idle]
             ELSE /\ poll' = [poll EXCEPT ![p].i = i + 1]
                  /\ UNCHANGED <<deliveries, drainedClean>>
    /\ UNCHANGED <<activities, now, issued, detection>>

\* The body of the response to GET /commands/blocked-domains.
BlockedDomainsResponse(student_id) ==
    [student_id |-> student_id,
     blocked_domains |-> get_currently_blocked_domains(student_id),
     count |-> Cardinality(get_currently_blocked_domains(student_id))]

\* GET /commands/blocked-domains: it reads the table and writes nothing.
get_blocked_domains(student_id) ==
    /\ BlockedDomainsResponse(student_id).count >= 0
    /\ UNCHANGED vars

\* ------------------------------------------------------------- telemetry
\* POST /activity, as far as the commands see it: db.insert_activity stores
\* the hostname with the current time.
submit_activity(hostname) ==
    /\ Cardinality(activities) < MaxActivities
    /\ activities' = activities \cup {[hostname |-> hostname, timestamp |-> now]}
    /\ UNCHANGED <<commands, now, poll, issued, deliveries, drainedClean,
                   detection, firewall>>

\* ------------------------------------------------------------- clock
Tick ==
    /\ now < MaxTime
    /\ now' = now + 1
    /\ UNCHANGED <<commands, activities, poll, issued, deliveries,
                   drainedClean, detection, firewall>>

\* The wall clock is set back (datetime('now') is not monotonic).
ClockSetBack ==
    /\ \E t \in 0..(now - 1) : now' = t
    /\ UNCHANGED <<commands, activities, poll, issued, deliveries,
                   drainedClean, detection, firewall>>

\* ------------------------------------------------------ violation detector
\* A Python str is a sequence of characters; a formatted message is a
\* sequence of tokens, each a sequence of strings: a literal text, an
\* embedded str, or a formatted value.
ToLower ==
    [A |-> "a", B |-> "b", C |-> "c", D |-> "d", E |-> "e", F |-> "f", G |-> "g",
     H |-> "h", I |-> "i", J |-> "j", K |-> "k", L |-> "l", M |-> "m", N |-> "n",
     O |-> "o", P |-> "p", Q |-> "q", R |-> "r", S |-> "s", T |-> "t", U |-> "u",
     V |-> "v", W |-> "w", X |-> "x", Y |-> "y", Z |-> "z"]

\* str.lower()
lower(str) ==
    [i \in 1..Len(str) |->
        IF str[i] \in DOMAIN ToLower THEN ToLower[str[i]] ELSE str[i]]

\* str.strip()
RECURSIVE strip(_)
strip(str) ==
    IF str # <<>> /\ Head(str) = " " THEN strip(Tail(str))
    ELSE IF str # <<>> /\ str[Len(str)] = " "
         THEN strip(SubSeq(str, 1, Len(str) - 1))
         ELSE str

\* `keyword in str`
Contains(keyword, str) ==
    \E i \in 0..(Len(str) - Len(keyword)) :
        SubSeq(str, i + 1, i + Len(keyword)) = keyword

Text(t) == <<t>>

\* sep.join(parts), each part a sequence of tokens
RECURSIVE Join(_, _)
Join(sep, parts) ==
    IF parts = <<>> THEN <<>>
    ELSE IF Len(parts) = 1 THEN parts[1]
    ELSE parts[1] \o <<Text(sep)>> \o Join(sep, Tail(parts))

\* f"{value:<fmt>}": the text is determined by the format and the value.
Format(fmt, value) == <<fmt, ToString(value)>>

SUSPICIOUS_DOMAINS ==
    << <<"t", "o", "r", "r", "e", "n", "t">>, <<"p", "r", "o", "x", "y">>,
       <<"v", "p", "n">>, <<"d", "a", "r", "k", "w", "e", "b">>,
       <<"h", "a", "c", "k">>, <<"c", "r", "a", "c", "k">>,
       <<"p", "i", "r", "a", "t", "e">>,
       <<"d", "o", "w", "n", "l", "o", "a", "d">>,
       <<"s", "t", "r", "e", "a", "m", "i", "n", "g">>,
       <<"g", "a", "m", "i", "n", "g">> >>

\* PolicyViolationDetector.__init__
blocked_keywords ==
    [i \in 1..Len(settings.BLOCKED_KEYWORDS) |->
        lower(strip(settings.BLOCKED_KEYWORDS[i]))]
bandwidth_threshold_bytes == settings.BANDWIDTH_THRESHOLD_MB * 1024 * 1024
cpu_threshold == settings.CPU_THRESHOLD_PERCENT
memory_threshold == settings.MEMORY_THRESHOLD_PERCENT
disk_threshold == settings.DISK_THRESHOLD_PERCENT
max_connections == settings.CONNECTIONS_THRESHOLD
upload_rate_threshold_kbps == settings.UPLOAD_RATE_THRESHOLD_MBPS * 1024
download_rate_threshold_kbps == settings.DOWNLOAD_RATE_THRESHOLD_MBPS * 1024

\* PolicyViolationDetector._escalate_severity
severity_order == [low |-> 0, medium |-> 1, high |-> 2, critical |-> 3]

\* Variant: the comparison is the wrong way round.
_escalate_severity_lower(current, new) ==
    IF severity_order[new] < severity_order[current] THEN new ELSE current

\* Variant: two high findings add up to critical.
_escalate_severity_compound(current, new) ==
    IF current = "high" /\ new = "high" THEN "critical"
    ELSE IF severity_order[new] > severity_order[current] THEN new ELSE current

\* Variant: the last severity passed in wins.
_escalate_severity_last(current, new) == new

_escalate_severity(current, new) ==
    IF severity_order[new] > severity_order[current] THEN new ELSE current

\* Variant: without the `break`, a process is appended once per keyword it
\* contains.
_check_blocked_processes_per_keyword(processes) ==
    LET hits(process) ==
            SelectSeq(blocked_keywords,
                      LAMBDA keyword : Contains(keyword, lower(process)))
        RECURSIVE collect(_)
        collect(n) ==
            IF n = 0 THEN <<>>
            ELSE collect(n - 1)
                 \o [k \in 1..Len(hits(processes[n])) |-> processes[n]]
        violated_processes == collect(Len(processes))
    IN IF violated_processes # <<>>
       THEN [violation |-> TRUE,
             reason |-> <<Text("Blocked application detected: ")>>
                        \o Join(", ", [i \in 1..Len(violated_processes) |->
                                          <<violated_processes[i]>>]),
             violated_processes |-> violated_processes]
       ELSE [violation |-> FALSE, reason |-> <<>>, violated_processes |-> <<>>]

\* PolicyViolationDetector._check_blocked_processes
_check_blocked_processes(processes) ==
    LET violated_processes ==
            SelectSeq(processes,
                      LAMBDA process :
                          \E k \in 1..Len(blocked_keywords) :
                              Contains(blocked_keywords[k], lower(process)))
    IN IF violated_processes # <<>>
       THEN [violation |-> TRUE,
             reason |-> <<Text("Blocked application detected: ")>>
                        \o Join(", ", [i \in 1..Len(violated_processes) |->
                                          <<violated_processes[i]>>]),
             violated_processes |-> violated_processes]
       ELSE [violation |-> FALSE, reason |-> <<>>, violated_processes |-> <<>>]

\* Variant: each counter is compared with the threshold on its own.
_check_bandwidth_threshold_each(bytes_sent, bytes_recv) ==
    LET total_bandwidth == bytes_sent + bytes_recv
    IN IF bytes_sent > bandwidth_threshold_bytes
          \/ bytes_recv > bandwidth_threshold_bytes
       THEN [violation |-> TRUE,
             reason |-> <<Text("Bandwidth threshold exceeded: "),
                          Format(".2f MB", total_bandwidth),
                          Text(" (limit: "),
                          Format(".0f MB", bandwidth_threshold_bytes),
                          Text(")")>>]
       ELSE [violation |-> FALSE, reason |-> <<>>]

\* Variant: a total equal to the threshold is reported too.
_check_bandwidth_threshold_reached(bytes_sent, bytes_recv) ==
    LET total_bandwidth == bytes_sent + bytes_recv
    IN IF total_bandwidth >= bandwidth_threshold_bytes
       THEN [violation |-> TRUE,
             reason |-> <<Text("Bandwidth threshold exceeded: "),
                          Format(".2f MB", total_bandwidth),
                          Text(" (limit: "),
                          Format(".0f MB", bandwidth_threshold_bytes),
                          Text(")")>>]
       ELSE [violation |-> FALSE, reason |-> <<>>]

\* PolicyViolationDetector._check_bandwidth_threshold
_check_bandwidth_threshold(bytes_sent, bytes_recv) ==
    LET total_bandwidth == bytes_sent + bytes_recv
    IN IF total_bandwidth > bandwidth_threshold_bytes
       THEN [violation |-> TRUE,
             reason |-> <<Text("Bandwidth threshold exceeded: "),
                          Format(".2f MB", total_bandwidth),
                          Text(" (limit: "),
                          Format(".0f MB", bandwidth_threshold_bytes),
                          Text(")")>>]
       ELSE [violation |-> FALSE, reason |-> <<>>]

\* Python's None is the empty set and a present value v is {v}.
None == {}
Value(x) == CHOOSE v \in x : TRUE

\* dest.get('domain', ''): the key may be missing, or present with None.
DestDomain(dest) == IF "domain" \in DOMAIN dest THEN dest.domain ELSE {<<>>}

\* PolicyViolationDetector._load_blocked_domains: the blocked_domains list of
\* policies.json next to the database, [] when the file is missing.
_load_blocked_domains == settings.policies_blocked_domains

\* PolicyViolationDetector._check_suspicious_domains. None.lower() raises
\* AttributeError. The domains of the message are joined from a Python set,
\* whose order is not fixed: the message carries them as a set.
_check_suspicious_domains(destinations) ==
    IF \E i \in 1..Len(destinations) : DestDomain(destinations[i]) = None
    THEN [raised |-> TRUE]
    ELSE LET domain(i) == lower(Value(DestDomain(destinations[i])))
             keyword_hits ==
                 SelectSeq([i \in 1..Len(destinations) |-> domain(i)],
                           LAMBDA d :
                               /\ d # <<>>
                               /\ \E k \in 1..Len(SUSPICIOUS_DOMAINS) :
                                      Contains(SUSPICIOUS_DOMAINS[k], d))
             policy ==
                 SelectSeq([i \in 1..Len(destinations) |-> domain(i)],
                           LAMBDA d : \E k \in 1..Len(_load_blocked_domains) :
                                          _load_blocked_domains[k] = d)
             policy_hits ==
                 [i \in 1..Len(policy) |-> policy[i] \o <<" (blocked policy)">>]
             suspicious_found == keyword_hits \o policy_hits
             shown == {suspicious_found[i] :
                          i \in 1..(IF Len(suspicious_found) < 3
                                    THEN Len(suspicious_found) ELSE 3)}
             count == Cardinality({suspicious_found[i] :
                                      i \in 1..Len(suspicious_found)})
         IN IF suspicious_found # <<>>
            THEN [raised |-> FALSE, violation |-> TRUE,
                  reason |-> <<Text("Suspicious/blocked domain access detected: "),
                               Format("set", shown)>>
                             \o (IF count > 3
                                 THEN <<Text(" (+"), Format("d", count - 3),
                                        Text(" more)")>>
                                 ELSE <<>>)]
            ELSE [raised |-> FALSE, violation |-> FALSE, reason |-> <<>>]

\* Variant: `>=` where the code has `>`.
Exceeds_or_equals(value, threshold) ==
    value # None /\ Value(value) >= threshold

\* `value is not None and value > threshold`
Exceeds(value, threshold) ==
    value # None /\ Value(value) > threshold

\* The `if` statements of check_violations in the order the code runs them:
\* whether the branch is taken, what it appends to `violations` and the
\* severity it passes to _escalate_severity.
Checks(processes, bytes_sent, bytes_recv, destinations, cpu_percent, memory_percent, disk_percent, upload_rate_kbps, download_rate_kbps) ==
    LET process_violation == _check_blocked_processes(processes)
        bandwidth_violation == _check_bandwidth_threshold(bytes_sent, bytes_recv)
        domain_violation == _check_suspicious_domains(destinations)
    IN << [taken |-> process_violation.violation,
           reason |-> process_violation.reason, severity |-> "high"],
          [taken |-> bandwidth_violation.violation,
           reason |-> bandwidth_violation.reason, severity |-> "medium"],
          [taken |-> destinations # <<>> /\ domain_violation.violation,
           reason |-> IF destinations # <<>> THEN domain_violation.reason ELSE <<>>,
           severity |-> "high"],
          [taken |-> destinations # <<>> /\ Len(destinations) > max_connections,
           reason |-> <<Text("Excessive network connections detected: "),
                        Format("d", Len(destinations)),
                        Text(" active connections (limit: "),
                        Format("d", max_connections), Text(")")>>,
           severity |-> "medium"],
          [taken |-> Exceeds(cpu_percent, cpu_threshold),
           reason |-> <<Text("High CPU usage detected: "),
                        Format(".1f", cpu_percent), Text("% (threshold: "),
                        Format("d", cpu_threshold), Text("%)")>>,
           severity |-> "medium"],
          [taken |-> Exceeds(memory_percent, memory_threshold),
           reason |-> <<Text("High memory usage detected: "),
                        Format(".1f", memory_percent), Text("% (threshold: "),
                        Format("d", memory_threshold), Text("%)")>>,
           severity |-> "medium"],
          [taken |-> Exceeds(disk_percent, disk_threshold),
           reason |-> <<Text("High disk usage detected: "),
                        Format(".1f", disk_percent), Text("% (threshold: "),
                        Format("d", disk_threshold), Text("%)")>>,
           severity |-> "medium"],
          [taken |-> Exceeds(upload_rate_kbps, upload_rate_threshold_kbps),
           reason |-> <<Text("Excessive upload rate detected: "),
                        Format(".1f", upload_rate_kbps), Text(" KB/s (threshold: "),
                        Format(".1f MB/s", upload_rate_threshold_kbps), Text(")")>>,
           severity |-> "high"],
          [taken |-> Exceeds(download_rate_kbps, download_rate_threshold_kbps),
           reason |-> <<Text("Excessive download rate detected: "),
                        Format(".1f", download_rate_kbps), Text(" KB/s (threshold: "),
                        Format(".1f MB/s", download_rate_threshold_kbps), Text(")")>>,
           severity |-> "medium"] >>

\* Variant: violations.insert(0, ...) where the code has violations.append(...).
RECURSIVE Violations_prepended(_, _)
Violations_prepended(checks, n) ==
    IF n = 0 THEN <<>>
    ELSE (IF checks[n].taken THEN <<checks[n].reason>> ELSE <<>>)
         \o Violations_prepended(checks, n - 1)

\* The local variables `violations` and `max_severity` after the first n checks.
RECURSIVE Violations(_, _)
Violations(checks, n) ==
    IF n = 0 THEN <<>>
    ELSE Violations(checks, n - 1)
         \o (IF checks[n].taken THEN <<checks[n].reason>> ELSE <<>>)

RECURSIVE MaxSeverity(_, _)
MaxSeverity(checks, n) ==
    IF n = 0 THEN "low"
    ELSE IF checks[n].taken
         THEN _escalate_severity(MaxSeverity(checks, n - 1), checks[n].severity)
         ELSE MaxSeverity(checks, n - 1)

NoVerdict == [returned |-> FALSE, raised |-> FALSE]

\* PolicyViolationDetector.check_violations: the ViolationResult it returns,
\* or the exception that leaves it.
check_violations(processes, bytes_sent, bytes_recv, hostname, destinations, cpu_percent, memory_percent, disk_percent, active_connections, upload_rate_kbps, download_rate_kbps) ==
    IF destinations # <<>> /\ _check_suspicious_domains(destinations).raised
    THEN [returned |-> FALSE, raised |-> TRUE, error |-> "AttributeError"]
    ELSE LET checks == Checks(processes, bytes_sent, bytes_recv, destinations,
                              cpu_percent, memory_percent, disk_percent,
                              upload_rate_kbps, download_rate_kbps)
             violations == Violations(checks, Len(checks))
             max_severity == MaxSeverity(checks, Len(checks))
         IN IF violations # <<>>
            THEN [returned |-> TRUE, raised |-> FALSE,
                  violation |-> TRUE,
                  reason |-> {Join("; ", violations)},
                  severity |-> max_severity,
                  violated_processes |->
                      _check_blocked_processes(processes).violated_processes]
            ELSE [returned |-> TRUE, raised |-> FALSE,
                  violation |-> FALSE,
                  reason |-> None,
                  severity |-> "low",
                  violated_processes |-> <<>>]

\* ------------------------------------------------------ telemetry pipeline
NoResponse == [status_code |-> 0]

\* load_policies when policies.json does not exist.
NoPolicies == [allowed_domains |-> <<>>, blocked_domains |-> <<>>]

Resolvers == {1, 2}                    \* slots of concurrently running resolve requests

\* A slot before its request: pc is the position in the handler, status_code
\* the answer; concurrent and was_active are history (another request for
\* the same alert was under way at some time of this one; the alert was
\* active when the request arrived).
NoResolve == [pc |-> "idle", alert_id |-> 0, status_code |-> 0,
              concurrent |-> FALSE, was_active |-> FALSE]

\* Variant: an alert of the same hostname and reason is reopened instead of
\* a new row being inserted.
insert_alert_reopen(rows, hostname, reason, severity, activity_id) ==
    IF \E i \in 1..Len(rows) : rows[i].hostname = hostname /\ rows[i].reason = reason
    THEN [i \in 1..Len(rows) |->
             IF rows[i].hostname = hostname /\ rows[i].reason = reason
             THEN [rows[i] EXCEPT !.status = "active", !.resolved_at = None]
             ELSE rows[i]]
    ELSE Append(rows, [id |-> Len(rows) + 1,
                       hostname |-> hostname,
                       reason |-> reason,
                       severity |-> severity,
                       activity_id |-> activity_id,
                       status |-> "active",
                       timestamp |-> now,
                       resolved_at |-> None])

\* Database.insert_alert
insert_alert(rows, hostname, reason, severity, activity_id) ==
    Append(rows, [id |-> Len(rows) + 1,
                  hostname |-> hostname,
                  reason |-> reason,
                  severity |-> severity,
                  activity_id |-> activity_id,
                  status |-> "active",
                  timestamp |-> now,
                  resolved_at |-> None])

\* Variant: the status of the row is flipped, whatever it is.
resolve_alert_toggle(rows, alert_id) ==
    LET matched == {i \in 1..Len(rows) : rows[i].id = alert_id}
    IN [rows |-> [i \in 1..Len(rows) |->
                     IF i \in matched
                     THEN [rows[i] EXCEPT
                              !.status = IF @ = "active" THEN "resolved" ELSE "active",
                              !.resolved_at = {now}]
                     ELSE rows[i]],
        rowcount |-> Cardinality(matched)]

\* Variant: UPDATE ... WHERE id = ? without the status condition.
resolve_alert_any_status(rows, alert_id) ==
    LET matched == {i \in 1..Len(rows) : rows[i].id = alert_id}
    IN [rows |-> [i \in 1..Len(rows) |->
                     IF i \in matched
                     THEN [rows[i] EXCEPT !.status = "resolved",
                                          !.resolved_at = {now}]
                     ELSE rows[i]],
        rowcount |-> Cardinality(matched)]

\* Variant: the UPDATE sets status and leaves resolved_at alone.
resolve_alert_status_only(rows, alert_id) ==
    LET matched == {i \in 1..Len(rows) :
                       rows[i].id = alert_id /\ rows[i].status = "active"}
    IN [rows |-> [i \in 1..Len(rows) |->
                     IF i \in matched
                     THEN [rows[i] EXCEPT !.status = "resolved"]
                     ELSE rows[i]],
        rowcount |-> Cardinality(matched)]

\* Variant: the method returns whether a row with the id exists.
resolve_alert_found(rows, alert_id) ==
    LET matched == {i \in 1..Len(rows) :
                       rows[i].id = alert_id /\ rows[i].status = "active"}
    IN [rows |-> [i \in 1..Len(rows) |->
                     IF i \in matched
                     THEN [rows[i] EXCEPT !.status = "resolved",
                                          !.resolved_at = {now}]
                     ELSE rows[i]],
        rowcount |-> Cardinality({i \in 1..Len(rows) : rows[i].id = alert_id})]

\* Database.resolve_alert: UPDATE alerts SET status = 'resolved',
\* resolved_at = ? WHERE id = ? AND status = 'active', with the table after
\* it and cursor.rowcount.
resolve_alert(rows, alert_id) ==
    LET matched == {i \in 1..Len(rows) :
                       rows[i].id = alert_id /\ rows[i].status = "active"}
    IN [rows |-> [i \in 1..Len(rows) |->
                     IF i \in matched
                     THEN [rows[i] EXCEPT !.status = "resolved",
                                          !.resolved_at = {now}]
                     ELSE rows[i]],
        rowcount |-> Cardinality(matched)]

\* POST /activity for the reported snapshot: db.insert_activity, then
\* detector.check_violations with the process list and the byte counters
\* only, then db.insert_alert when it reports a violation.
submit_activity_snapshot ==
    /\ response = NoResponse
    /\ Cardinality(activities) < MaxActivities
    /\ LET activity_id == Cardinality(activities) + 1
           violation_result ==
               check_violations(snapshot.processes, snapshot.bytes_sent,
                                snapshot.bytes_recv, snapshot.hostname,
                                <<>>, None, None, None, None, None, None)
       IN /\ activities' = activities \cup
                 {[id |-> activity_id, hostname |-> snapshot.hostname,
                   timestamp |-> now]}
          /\ alerts' = IF violation_result.violation
                       THEN insert_alert(alerts, snapshot.hostname,
                                         Value(violation_result.reason),
                                         violation_result.severity, activity_id)
                       ELSE alerts
          /\ response' = [status_code |-> 201, success |-> TRUE,
                          activity_id |-> activity_id,
                          violation_detected |-> violation_result.violation,
                          alert_id |-> IF violation_result.violation
                                       THEN {Len(alerts) + 1} ELSE None]
    /\ UNCHANGED <<commands, now, poll, issued, deliveries, drainedClean,
                   settings, snapshot, verdict, verdict_member3, firewall, resolves, policies>>

\* Variant: the failed alert insertion takes the stored snapshot with it.
submit_activity_alert_insert_fails_rollback ==
    /\ response = NoResponse
    /\ Cardinality(activities) < MaxActivities
    /\ check_violations(snapshot.processes, snapshot.bytes_sent,
                        snapshot.bytes_recv, snapshot.hostname,
                        <<>>, None, None, None, None, None, None).violation
    /\ response' = [status_code |-> 500]
    /\ UNCHANGED <<commands, activities, now, poll, issued, deliveries,
                   drainedClean, settings, snapshot, verdict, verdict_member3, alerts, firewall, resolves, policies>>

\* POST /activity when db.insert_alert raises a storage error: the
\* snapshot's transaction has committed, the alert's is rolled back by
\* get_connection, and the handler turns the exception into a 500.
submit_activity_alert_insert_fails ==
    /\ response = NoResponse
    /\ Cardinality(activities) < MaxActivities
    /\ check_violations(snapshot.processes, snapshot.bytes_sent,
                        snapshot.bytes_recv, snapshot.hostname,
                        <<>>, None, None, None, None, None, None).violation
    /\ activities' = activities \cup
           {[id |-> Cardinality(activities) + 1,
             hostname |-> snapshot.hostname, timestamp |-> now]}
    /\ response' = [status_code |-> 500]
    /\ UNCHANGED <<commands, now, poll, issued, deliveries, drainedClean,
                   settings, snapshot, verdict, verdict_member3, alerts, firewall, resolves, policies>>

\* POST /alerts/{alert_id}/resolve: the response, and the handler.
resolve_alert_response(alert_id) ==
    IF resolve_alert(alerts, alert_id).rowcount > 0
    THEN [status_code |-> 200, success |-> TRUE, alert_id |-> alert_id]
    ELSE [status_code |-> 404]

resolve_alert_route(alert_id) ==
    /\ alerts' = resolve_alert(alerts, alert_id).rows
    /\ UNCHANGED <<commands, activities, now, poll, issued, deliveries,
                   drainedClean, settings, snapshot, verdict, verdict_member3, response, firewall, resolves, policies>>

\* PATCH /alerts/{alert_id}/resolve when requests overlap.  A request enters
\* the handler in slot r ...
resolve_alert_enter(r, alert_id) ==
    /\ resolves[r].pc = "idle"
    /\ LET others == {q \in Resolvers \ {r} :
                         resolves[q].pc = "running" /\ resolves[q].alert_id = alert_id}
       IN resolves' = [q \in Resolvers |->
             IF q = r
             THEN [pc |-> "running", alert_id |-> alert_id, status_code |-> 0,
                   concurrent |-> others # {},
                   was_active |-> \E i \in 1..Len(alerts) :
                                      alerts[i].id = alert_id /\ alerts[i].status = "active"]
             ELSE IF q \in others THEN [resolves[q] EXCEPT !.concurrent = TRUE]
                  ELSE resolves[q]]
    /\ UNCHANGED <<commands, activities, now, poll, issued, deliveries,
                   drainedClean, settings, snapshot, verdict, verdict_member3,
                   alerts, response, firewall, policies>>

\* ... and runs db.resolve_alert, one transaction, whose result decides the
\* answer: 200, or 404 "not found or already resolved".
resolve_alert_answer(r) ==
    /\ resolves[r].pc = "running"
    /\ alerts' = resolve_alert(alerts, resolves[r].alert_id).rows
    /\ resolves' = [resolves EXCEPT
                       ![r].pc = "done",
                       ![r].status_code =
                           resolve_alert_response(resolves[r].alert_id).status_code]
    /\ UNCHANGED <<commands, activities, now, poll, issued, deliveries,
                   drainedClean, settings, snapshot, verdict, verdict_member3,
                   response, firewall, policies>>

\* detector.check_violations applied to every field of the snapshot.
Evaluate ==
    /\ verdict = NoVerdict
    /\ verdict' = check_violations(snapshot.processes, snapshot.bytes_sent,
                                   snapshot.bytes_recv, snapshot.hostname,
                                   snapshot.destinations, snapshot.cpu_percent,
                                   snapshot.memory_percent, snapshot.disk_percent,
                                   snapshot.active_connections,
                                   snapshot.upload_rate_kbps,
                                   snapshot.download_rate_kbps)
    /\ UNCHANGED <<commands, activities, now, poll, issued, deliveries,
                   drainedClean, settings, snapshot, verdict_member3, alerts,
                   response, firewall, resolves, policies>>

\* ------------------------------------------------------ two-rule detector
\* Variant: severity high where the code has critical.
check_violations_member3_high(processes, bytes_sent, bytes_recv, hostname) ==
    LET process_violation == _check_blocked_processes(processes)
        bandwidth_violation == _check_bandwidth_threshold(bytes_sent, bytes_recv)
    IN IF process_violation.violation /\ bandwidth_violation.violation
       THEN [returned |-> TRUE, raised |-> FALSE, violation |-> TRUE,
             reason |-> {process_violation.reason \o <<Text("; ")>>
                         \o bandwidth_violation.reason},
             severity |-> "high",
             violated_processes |-> process_violation.violated_processes]
       ELSE IF process_violation.violation
       THEN [returned |-> TRUE, raised |-> FALSE, violation |-> TRUE,
             reason |-> {process_violation.reason},
             severity |-> "high",
             violated_processes |-> process_violation.violated_processes]
       ELSE IF bandwidth_violation.violation
       THEN [returned |-> TRUE, raised |-> FALSE, violation |-> TRUE,
             reason |-> {bandwidth_violation.reason},
             severity |-> "medium",
             violated_processes |-> <<>>]
       ELSE [returned |-> TRUE, raised |-> FALSE, violation |-> FALSE,
             reason |-> None,
             severity |-> "low",
             violated_processes |-> <<>>]

\* Member3 PolicyViolationDetector.check_violations; its __init__ and its
\* two helper methods read as those of the multi-rule detector.
check_violations_member3(processes, bytes_sent, bytes_recv, hostname) ==
    LET process_violation == _check_blocked_processes(processes)
        bandwidth_violation == _check_bandwidth_threshold(bytes_sent, bytes_recv)
    IN IF process_violation.violation /\ bandwidth_violation.violation
       THEN [returned |-> TRUE, raised |-> FALSE, violation |-> TRUE,
             reason |-> {process_violation.reason \o <<Text("; ")>>
                         \o bandwidth_violation.reason},
             severity |-> "critical",
             violated_processes |-> process_violation.violated_processes]
       ELSE IF process_violation.violation
       THEN [returned |-> TRUE, raised |-> FALSE, violation |-> TRUE,
             reason |-> {process_violation.reason},
             severity |-> "high",
             violated_processes |-> process_violation.violated_processes]
       ELSE IF bandwidth_violation.violation
       THEN [returned |-> TRUE, raised |-> FALSE, violation |-> TRUE,
             reason |-> {bandwidth_violation.reason},
             severity |-> "medium",
             violated_processes |-> <<>>]
       ELSE [returned |-> TRUE, raised |-> FALSE, violation |-> FALSE,
             reason |-> None,
             severity |-> "low",
             violated_processes |-> <<>>]

\* The two-rule detector applied to the snapshot.
Evaluate_member3 ==
    /\ verdict_member3 = NoVerdict
    /\ verdict_member3' = check_violations_member3(snapshot.processes,
                                                   snapshot.bytes_sent,
                                                   snapshot.bytes_recv,
                                                   snapshot.hostname)
    /\ UNCHANGED <<commands, activities, now, poll, issued, deliveries,
                   drainedClean, settings, snapshot, verdict, alerts, response, firewall, resolves, policies>>

\* ---------------------------------------------------- telemetry inputs
nmap == <<"n", "m", "a", "p">>
xNMAP == <<"x", "N", "M", "A", "P">>
nma == <<"n", "m", "a">>
vi == <<"v", "i">>
vpn_io == <<"v", "p", "n", ".", "i", "o">>
a_io == <<"a", ".", "i", "o">>

\* Two environments: the thresholds are the same, the keyword list and the
\* blocked domains of policies.json differ.
SettingsInputs ==
    {[BLOCKED_KEYWORDS |-> kw,
      BANDWIDTH_THRESHOLD_MB |-> 1,
      CPU_THRESHOLD_PERCENT |-> 80,
      MEMORY_THRESHOLD_PERCENT |-> 85,
      DISK_THRESHOLD_PERCENT |-> 90,
      CONNECTIONS_THRESHOLD |-> 1,
      UPLOAD_RATE_THRESHOLD_MBPS |-> 1,
      DOWNLOAD_RATE_THRESHOLD_MBPS |-> 2,
      policies_blocked_domains |-> IF kw = <<vi, nma>> THEN <<a_io>> ELSE <<>>] :
        kw \in {<< <<" ", "N", "m", "a", "p">> >>, <<vi, nma>>}}

ProcessInputs ==
    {<<>>, <<vi>>, <<nmap>>, <<nma>>, <<vi, xNMAP>>, <<nmap, xNMAP>>}

\* (bytes_sent, bytes_recv): nothing, a sum equal to 1 MB, a sum one above.
ByteInputs == {<<0, 0>>, <<524288, 524288>>, <<524288, 524289>>}

DestinationInputs ==
    {<<>>,
     <<[ip |-> "10.0.0.1", port |-> 443]>>,
     <<[ip |-> "10.0.0.1", port |-> 443, domain |-> None]>>,
     <<[ip |-> "10.0.0.1", port |-> 443, domain |-> {vpn_io}]>>,
     <<[ip |-> "10.0.0.1", port |-> 443, domain |-> {a_io}],
       [ip |-> "10.0.0.1", port |-> 80, domain |-> {a_io}]>>}

SnapshotInputs ==
    [hostname : {"PC01"},
     processes : ProcessInputs,
     bytes_sent : {b[1] : b \in ByteInputs},
     bytes_recv : {b[2] : b \in ByteInputs},
     destinations : DestinationInputs,
     cpu_percent : {None, {80}, {81}},
     memory_percent : {None, {85}, {86}},
     disk_percent : {None, {90}, {91}},
     active_connections : {None},
     upload_rate_kbps : {None, {1024}, {1025}},
     download_rate_kbps : {None, {2048}, {2049}}]

\* One reported snapshot, evaluated by the detector and posted to /activity.
InitDetect ==
    /\ commands = <<>>
    /\ activities = {}
    /\ now = 0
    /\ poll = [p \in Pollers |-> Idle]
    /\ issued = <<>>
    /\ deliveries = <<>>
    /\ drainedClean = [s \in Students |-> FALSE]
    /\ settings \in SettingsInputs
    /\ snapshot \in {s \in SnapshotInputs :
                        <<s.bytes_sent, s.bytes_recv>> \in ByteInputs}
    /\ verdict = NoVerdict
    /\ verdict_member3 = NoVerdict
    /\ alerts = <<>>
    /\ response = NoResponse
    /\ firewall = [s \in Students |-> {}]
    /\ resolves = [r \in Resolvers |-> NoResolve]
    /\ policies = [allowed_domains |-> <<>>,
                   blocked_domains |-> settings.policies_blocked_domains]

NextDetect ==
    \/ Evaluate
    \/ submit_activity_snapshot

SpecDetect == InitDetect /\ [][NextDetect]_vars

\* ---------------------------------------------------- destination inputs
hack == <<"h", "a", "c", "k">>
proxy == <<"p", "r", "o", "x", "y">>
crack == <<"c", "r", "a", "c", "k">>
b_org == <<"b", ".", "o", "r", "g">>

\* One entry of the destinations list, as get_active_destinations builds it.
Destination(domain) == [ip |-> "10.0.0.1", port |-> 443, domain |-> domain]

MaxDestinations == 4

\* Lists of resolved destinations up to MaxDestinations entries, and short
\* lists in which a destination is unresolved or carries no domain key.
ResolvedDestinationInputs ==
    UNION {[1..n -> {Destination({d}) : d \in {vpn_io, hack, proxy, crack, a_io, b_org}}] :
              n \in 0..MaxDestinations}

UnresolvedDestinationInputs ==
    UNION {[1..n -> {Destination(None), [ip |-> "10.0.0.1", port |-> 443],
                     Destination({vpn_io}), Destination({b_org})}] : n \in 1..2}

\* policies.json is missing, or blocks a.io and vpn.io.
PolicyInputs == {<<>>, <<a_io, vpn_io>>}

\* One reported snapshot that carries destinations only.
InitDomains ==
    /\ commands = <<>>
    /\ activities = {}
    /\ now = 0
    /\ poll = [p \in Pollers |-> Idle]
    /\ issued = <<>>
    /\ deliveries = <<>>
    /\ drainedClean = [s \in Students |-> FALSE]
    /\ settings \in {[s EXCEPT !.policies_blocked_domains = p] :
                        s \in SettingsInputs, p \in PolicyInputs}
    /\ snapshot \in
           [hostname : {"PC01"},
            processes : {<<>>},
            bytes_sent : {0},
            bytes_recv : {0},
            destinations : ResolvedDestinationInputs \cup UnresolvedDestinationInputs,
            cpu_percent : {None},
            memory_percent : {None},
            disk_percent : {None},
            active_connections : {None},
            upload_rate_kbps : {None},
            download_rate_kbps : {None}]
    /\ verdict = NoVerdict
    /\ verdict_member3 = NoVerdict
    /\ alerts = <<>>
    /\ response = NoResponse
    /\ firewall = [s \in Students |-> {}]
    /\ resolves = [r \in Resolvers |-> NoResolve]
    /\ policies = [allowed_domains |-> <<>>,
                   blocked_domains |-> settings.policies_blocked_domains]

SpecDomains == InitDomains /\ [][NextDetect]_vars

\* ------------------------------------------------------------- system
Init ==
    /\ commands = <<>>
    /\ activities = {}
    /\ now = 0
    /\ poll = [p \in Pollers |-> Idle]
    /\ issued = <<>>
    /\ deliveries = <<>>
    /\ drainedClean = [s \in Students |-> FALSE]
    /\ settings = NULL
    /\ snapshot = NULL
    /\ verdict = NoVerdict
    /\ verdict_member3 = NoVerdict
    /\ alerts = <<>>
    /\ response = NoResponse
    /\ firewall = [s \in Students |-> {}]
    /\ resolves = [r \in Resolvers |-> NoResolve]
    /\ policies = NoPolicies

BlockDomain == \E s \in Students, d \in Domains \cup Falsy : block_domain_on_student(s, d)
UnblockDomain == \E s \in Students, d \in Domains \cup Falsy : unblock_domain_on_student(s, d)
Broadcast == \E h \in Hours : create_global_command("PING", NULL, NULL, h)
PollSelect == \E p \in Pollers, s \in Students : get_commands_select(p, s) /\ UNCHANGED firewall
PollMark == \E p \in Pollers : get_commands_mark(p) /\ UNCHANGED firewall
BlockedQuery == \E s \in Students : get_blocked_domains(s)
Activity == \E s \in Students : submit_activity(s)
BroadcastAny ==
    \E a \in Actions, d \in Domains \cup {NULL}, h \in Hours :
        create_global_command(a, d, NULL, h)

Next ==
    \/ BlockDomain
    \/ UnblockDomain
    \/ Broadcast
    \/ PollSelect
    \/ PollMark
    \/ BlockedQuery
    \/ Activity
    \/ Tick

Spec == Init /\ [][Next]_vars

\* The command log alone, under a wall clock that may also be set back.
NextSkew ==
    \/ BlockDomain
    \/ UnblockDomain
    \/ PollSelect
    \/ PollMark
    \/ BlockedQuery
    \/ Tick
    \/ ClockSetBack

SpecSkew == Init /\ [][NextSkew]_vars

\* The command log with agents that keep polling (student_agent.main polls
\* every POLL_INTERVAL seconds for ever) and requests that run to completion.
NextPolling ==
    \/ BlockDomain
    \/ UnblockDomain
    \/ PollSelect
    \/ PollMark
    \/ Tick

SpecPolling ==
    /\ Init
    /\ [][NextPolling]_vars
    /\ \A s \in Students :
           SF_vars(\E p \in Pollers : get_commands_select(p, s) /\ UNCHANGED firewall)
    /\ \A p \in Pollers : WF_vars(get_commands_mark(p) /\ UNCHANGED firewall)

\* Telemetry and broadcasts of every action.
NextBroadcast ==
    \/ Activity
    \/ BroadcastAny
    \/ Tick

SpecBroadcast == Init /\ [][NextBroadcast]_vars

\* ---------------------------------------------------- detector comparison
nmavi == <<"n", "m", "a", "v", "i">>
sh == <<"s", "h">>

\* Process lists, among them names that contain two keywords or none.
CompareProcessInputs ==
    ProcessInputs \cup {<<sh>>, <<nmavi>>, <<xNMAP, sh, nmavi>>, <<vi, vi>>}

\* One snapshot that carries process names and byte counters only, given to
\* both detectors under the same settings.
InitCompare ==
    /\ commands = <<>>
    /\ activities = {}
    /\ now = 0
    /\ poll = [p \in Pollers |-> Idle]
    /\ issued = <<>>
    /\ deliveries = <<>>
    /\ drainedClean = [s \in Students |-> FALSE]
    /\ settings \in SettingsInputs
    /\ snapshot \in {s \in [hostname : {"PC01", "PC02"},
                            processes : CompareProcessInputs,
                            bytes_sent : {b[1] : b \in ByteInputs},
                            bytes_recv : {b[2] : b \in ByteInputs},
                            destinations : {<<>>},
                            cpu_percent : {None},
                            memory_percent : {None},
                            disk_percent : {None},
                            active_connections : {None},
                            upload_rate_kbps : {None},
                            download_rate_kbps : {None}] :
                        <<s.bytes_sent, s.bytes_recv>> \in ByteInputs}
    /\ verdict = NoVerdict
    /\ verdict_member3 = NoVerdict
    /\ alerts = <<>>
    /\ response = NoResponse
    /\ firewall = [s \in Students |-> {}]
    /\ resolves = [r \in Resolvers |-> NoResolve]
    /\ policies = [allowed_domains |-> <<>>,
                   blocked_domains |-> settings.policies_blocked_domains]

NextCompare ==
    \/ Evaluate
    \/ Evaluate_member3

SpecCompare == InitCompare /\ [][NextCompare]_vars

\* ---------------------------------------------------- alert lifecycle
\* Snapshots of two machines that carry process names and byte counters.
AlertSnapshotInputs ==
    {s \in [hostname : {"PC01", "PC02"},
            processes : {<<>>, <<nmap>>},
            bytes_sent : {0, 524288},
            bytes_recv : {0, 524289},
            destinations : {<<>>},
            cpu_percent : {None},
            memory_percent : {None},
            disk_percent : {None},
            active_connections : {None},
            upload_rate_kbps : {None},
            download_rate_kbps : {None}] :
        <<s.bytes_sent, s.bytes_recv>> \in ByteInputs}

\* student_agent's loop: after a report has been answered the agent collects
\* the next snapshot.
collect_system_data ==
    /\ response # NoResponse
    /\ snapshot' \in AlertSnapshotInputs
    /\ response' = NoResponse
    /\ UNCHANGED <<commands, activities, now, poll, issued, deliveries,
                   drainedClean, settings, verdict, verdict_member3, alerts, firewall, resolves, policies>>

\* The administrator resolves an alert id, which may not exist.
ResolveAlert == \E alert_id \in 1..(MaxActivities + 1) : resolve_alert_route(alert_id)

\* The administrator blocks youtube.com on PC01 while telemetry arrives.
BlockYoutube == block_domain_on_student("PC01", "youtube.com")

InitAlerts ==
    /\ commands = <<>>
    /\ activities = {}
    /\ now = 0
    /\ poll = [p \in Pollers |-> Idle]
    /\ issued = <<>>
    /\ deliveries = <<>>
    /\ drainedClean = [s \in Students |-> FALSE]
    /\ settings \in SettingsInputs
    /\ snapshot \in AlertSnapshotInputs
    /\ verdict = NoVerdict
    /\ verdict_member3 = NoVerdict
    /\ alerts = <<>>
    /\ response = NoResponse
    /\ firewall = [s \in Students |-> {}]
    /\ resolves = [r \in Resolvers |-> NoResolve]
    /\ policies = [allowed_domains |-> <<>>,
                   blocked_domains |-> settings.policies_blocked_domains]

NextAlerts ==
    \/ submit_activity_snapshot
    \/ submit_activity_alert_insert_fails
    \/ collect_system_data
    \/ ResolveAlert
    \/ BlockYoutube
    \/ Tick

SpecAlerts == InitAlerts /\ [][NextAlerts]_vars

\* ------------------------------------------------------- student agent
\* The agent of a student machine (student_agent.py; student_agent_simple.py
\* has the same functions): a Windows machine, run as Administrator, whose
\* resolver answers for every domain.  A firewall rule is known by its name.
Characters ==
    ("youtube.com" :> <<"y", "o", "u", "t", "u", "b", "e", ".", "c", "o", "m">>)
    @@ ("tube.com" :> <<"t", "u", "b", "e", ".", "c", "o", "m">>)

\* socket.getaddrinfo(domain, None): the distinct addresses of the domain.
getaddrinfo ==
    ("youtube.com" :> {<<"1", ".", "1", ".", "1", ".", "1">>})
    @@ ("tube.com" :> {<<"2", ".", "2", ".", "2", ".", "2">>})

\* f"Block_{domain}_{ip}"
rule_name(domain, ip) ==
    <<"B", "l", "o", "c", "k", "_">> \o Characters[domain] \o <<"_">> \o ip

\* The line `netsh advfirewall firewall show rule name=all` prints for a rule.
RuleNameLine(name) ==
    <<"R", "u", "l", "e", " ", "N", "a", "m", "e", ":", " ", " ">> \o name

\* block_domain_local: one `netsh ... add rule name=Block_<domain>_<ip>` per
\* resolved address.
block_domain_local(rules, domain) ==
    rules \cup {rule_name(domain, ip) : ip \in getaddrinfo[domain]}

\* unblock_domain_local: every listed rule whose line has `domain in line`
\* is deleted by name.
unblock_domain_local(rules, domain) ==
    LET rules_to_delete == {name \in rules :
                               Contains(Characters[domain], RuleNameLine(name))}
    IN rules \ rules_to_delete

\* execute_command
execute_command(rules, command) ==
    IF command.action = "BLOCK_DOMAIN"
    THEN IF command.domain \notin Falsy
         THEN block_domain_local(rules, command.domain) ELSE rules
    ELSE IF command.action = "UNBLOCK_DOMAIN"
         THEN IF command.domain \notin Falsy
              THEN unblock_domain_local(rules, command.domain) ELSE rules
         ELSE rules

\* main: `for cmd in commands: execute_command(cmd)`
RECURSIVE ExecuteAll(_, _)
ExecuteAll(rules, cmds) ==
    IF cmds = <<>> THEN rules
    ELSE ExecuteAll(execute_command(rules, Head(cmds)), Tail(cmds))

\* check_for_commands: the agent of `student_id` sends GET /commands.  The
\* loop of main is sequential, so the agent has no other poll under way.  An
\* empty answer (`if commands:` fails) executes nothing.
check_for_commands(p, student_id) ==
    /\ \A q \in Pollers : poll[q].student_id # student_id
    /\ get_commands_select(p, student_id)
    /\ UNCHANGED firewall

\* The server works on the agent's request; when the answer arrives, main
\* executes its commands in the order of the list.
main(p) ==
    /\ get_commands_mark(p)
    /\ IF poll[p].i = Len(poll[p].commands)
       THEN firewall' = [firewall EXCEPT ![poll[p].student_id] =
                            ExecuteAll(@, FormatCommands(poll[p].commands))]
       ELSE UNCHANGED firewall

AgentPoll == \E p \in Pollers, s \in Students : check_for_commands(p, s)
AgentExecute == \E p \in Pollers : main(p)
BlockOne == \E s \in Students, d \in Domains : block_domain_on_student(s, d)
UnblockOne == \E s \in Students, d \in Domains : unblock_domain_on_student(s, d)

\* Administrators enqueue, agents poll and enforce; no answer is lost.
NextAgent ==
    \/ BlockOne
    \/ UnblockOne
    \/ AgentPoll
    \/ AgentExecute
    \/ Tick

SpecAgent == Init /\ [][NextAgent]_vars

\* The command log with enqueues, broadcasts of block and unblock directives
\* and the polls of a server that handles one request at a time.
BroadcastDomain ==
    \E a \in {"BLOCK_DOMAIN", "UNBLOCK_DOMAIN"}, d \in Domains, h \in Hours :
        create_global_command(a, d, NULL, h)
PollSelectOne == \E s \in Students : get_commands_select(1, s) /\ UNCHANGED firewall
PollMarkOne == get_commands_mark(1) /\ UNCHANGED firewall

NextDerived ==
    \/ BlockOne
    \/ UnblockOne
    \/ BroadcastDomain
    \/ Activity
    \/ PollSelectOne
    \/ PollMarkOne
    \/ Tick

SpecDerived == Init /\ [][NextDerived]_vars

\* The alert table with resolve requests that overlap.
ResolveEnter == \E r \in Resolvers, alert_id \in 1..MaxActivities : resolve_alert_enter(r, alert_id)
ResolveAnswer == \E r \in Resolvers : resolve_alert_answer(r)

NextResolve ==
    \/ submit_activity_snapshot
    \/ collect_system_data
    \/ ResolveEnter
    \/ ResolveAnswer
    \/ Tick

SpecResolve == InitAlerts /\ [][NextResolve]_vars

\* ------------------------------------------------------- policy router
\* list.remove(x): the first occurrence is removed.
RECURSIVE Remove(_, _)
Remove(list, x) ==
    IF list = <<>> THEN <<>>
    ELSE IF Head(list) = x THEN Tail(list)
    ELSE <<Head(list)>> \o Remove(Tail(list), x)

\* `x in list`
In(x, list) == \E i \in 1..Len(list) : list[i] = x

\* POST /policy/domains/block
add_blocked_domain(domain_policy) ==
    /\ LET domain == strip(lower(domain_policy.domain))
       IN IF In(domain, policies.blocked_domains)
          THEN UNCHANGED policies     \* "already blocked", nothing is saved
          ELSE policies' = [policies EXCEPT !.blocked_domains = Append(@, domain)]
    /\ UNCHANGED <<commands, activities, now, poll, issued, deliveries,
                   drainedClean, settings, snapshot, verdict, verdict_member3,
                   alerts, response, firewall, resolves>>

\* POST /policy/domains/allow
add_allowed_domain(domain_policy) ==
    /\ LET domain == strip(lower(domain_policy.domain))
       IN IF In(domain, policies.allowed_domains)
          THEN UNCHANGED policies     \* "already allowed", nothing is saved
          ELSE policies' =
                  [allowed_domains |-> Append(policies.allowed_domains, domain),
                   blocked_domains |->
                       IF In(domain, policies.blocked_domains)
                       THEN Remove(policies.blocked_domains, domain)
                       ELSE policies.blocked_domains]
    /\ UNCHANGED <<commands, activities, now, poll, issued, deliveries,
                   drainedClean, settings, snapshot, verdict, verdict_member3,
                   alerts, response, firewall, resolves>>

\* DELETE /policy/domains/{domain}
remove_domain_policy(domain_name) ==
    /\ LET domain == strip(lower(domain_name))
       IN policies' =
             [allowed_domains |->
                  IF In(domain, policies.allowed_domains)
                  THEN Remove(policies.allowed_domains, domain)
                  ELSE policies.allowed_domains,
              blocked_domains |->
                  IF In(domain, policies.blocked_domains)
                  THEN Remove(policies.blocked_domains, domain)
                  ELSE policies.blocked_domains]
    /\ UNCHANGED <<commands, activities, now, poll, issued, deliveries,
                   drainedClean, settings, snapshot, verdict, verdict_member3,
                   alerts, response, firewall, resolves>>

\* Domain names as an administrator types them.
A_IO_padded == <<" ", "A", ".", "I", "O", " ">>
PolicyDomainInputs == {a_io, A_IO_padded, vpn_io, b_org}

AddBlocked == \E d \in PolicyDomainInputs : add_blocked_domain([domain |-> d, policy |-> "blocked"])
AddAllowed == \E d \in PolicyDomainInputs : add_allowed_domain([domain |-> d, policy |-> "allowed"])
RemoveDomain == \E d \in PolicyDomainInputs : remove_domain_policy(d)

NextPolicy ==
    \/ AddBlocked
    \/ AddAllowed
    \/ RemoveDomain

\* The policy lists, starting from a missing policies.json.
SpecPolicy == Init /\ [][NextPolicy]_vars

\* =========================================================== properties
RowsOf(s) == {i \in 1..Len(commands) : commands[i].student_id = s}
PendingIds(s) == {i \in RowsOf(s) : commands[i].status = "pending"}
RowsFor(s, r) == {i \in RowsOf(s) : commands[i].domain = r}

\* The response a poll of student s returns when it reads the table in the
\* current state.
DrainResponse(s) == FormatCommands(get_pending_commands(s))

\* The rows a poll holds once db.get_pending_commands has returned.
Selected(pl) == IF pl.pc = "marking" THEN pl.commands ELSE <<>>

\* C1: every directive is contained in at most one poll response, also when
\* two polls of the same student run concurrently.
C1_NoDuplicateDelivery ==
    \A id \in 1..Len(deliveries) : deliveries[id] <= 1

\* What the reading step and the returning step of a poll must establish.
C2_SelectStep(p, s) ==
    LET rows == Selected(poll'[p])
    IN /\ {rows[i].id : i \in 1..Len(rows)} = PendingIds(s)
       /\ Len(rows) = Cardinality(PendingIds(s))
       /\ \A i \in 1..Len(rows) : rows[i] = PendingColumns(commands[rows[i].id])
       /\ \A i, j \in 1..Len(rows) :
              i < j => rows[i].created_at <= rows[j].created_at
       /\ PendingIds(s) = {} =>
              /\ poll'[p].pc = "idle"
              /\ DrainResponse(s) = <<>>
              /\ commands' = commands

C2_ReturnStep(p) ==
    (poll[p].pc = "marking" /\ poll'[p].pc = "idle") =>
        \A i \in 1..Len(poll[p].commands) :
            commands'[poll[p].commands[i].id].status = "executed"

\* C2: a poll of student s reads exactly the rows of s that are pending when
\* it reads, each once, in ascending created_at; when it returns, every row
\* it read is marked executed; with nothing pending it returns at once with
\* the empty sequence.
C2_DrainReturnsPending ==
    [][/\ \A p \in Pollers, s \in Students :
              get_commands_select(p, s) => C2_SelectStep(p, s)
       /\ \A p \in Pollers : C2_ReturnStep(p)]_vars

C2_TwoReturnedInOrder ==
    \E i, j \in 1..Len(commands) :
        /\ i # j
        /\ commands[i].student_id = commands[j].student_id
        /\ commands[i].created_at < commands[j].created_at
        /\ commands[i].status = "executed" /\ commands[j].status = "executed"
        /\ commands[i].executed_at = commands[j].executed_at
        /\ deliveries[i] = 1 /\ deliveries[j] = 1

\* C3: once a poll of student s has completed and nothing was enqueued for s
\* since that poll read the table, a further poll of s returns the empty
\* sequence.
C3_SecondDrainEmpty ==
    \A s \in Students : drainedClean[s] => DrainResponse(s) = <<>>

C3_DrainedSomething ==
    \E s \in Students :
        /\ drainedClean[s]
        /\ \E i \in RowsOf(s) : deliveries[i] >= 1

\* The directive of (s, r) that is greatest by (created_at, then id).
Latest(s, r) ==
    CHOOSE i \in RowsFor(s, r) :
        \A j \in RowsFor(s, r) :
            \/ commands[j].created_at < commands[i].created_at
            \/ commands[j].created_at = commands[i].created_at /\ j <= i

\* C4: the blocked set of a student is the set of resources whose directive
\* that is greatest by (created_at, then id) is a BLOCK_DOMAIN.
C4_LatestByCreatedAtThenId ==
    \A s \in Students :
        get_currently_blocked_domains(s) =
            {r \in Domains : RowsFor(s, r) # {}
                             /\ commands[Latest(s, r)].action = "BLOCK_DOMAIN"}

\* C5: after BLOCK_DOMAIN and then UNBLOCK_DOMAIN were enqueued for (s, r),
\* with no later directive for (s, r), r is not in the blocked set of s.
C5_UnblockAfterBlock ==
    \A s \in Students, r \in Domains :
        \A i, j \in RowsFor(s, r) :
            (/\ i < j
             /\ \A k \in RowsFor(s, r) : k <= j /\ (k <= i \/ k = j)
             /\ commands[i].action = "BLOCK_DOMAIN"
             /\ commands[j].action = "UNBLOCK_DOMAIN")
            => r \notin get_currently_blocked_domains(s)

\* C6: the blocked-domains query writes nothing, and between two enqueues
\* for a student no step changes the set the query returns for the student.
C6_PureProjection ==
    [][/\ \A s \in Students : get_blocked_domains(s) => commands' = commands
       /\ commands' # commands =>
             \A s \in Students :
                 (\A i \in RowsOf(s)' : i <= Len(commands))
                 => get_currently_blocked_domains(s)' = get_currently_blocked_domains(s)]_vars

C6_QueriedDuringDrain ==
    \E s \in Students, r \in Domains :
        /\ r \in get_currently_blocked_domains(s)
        /\ \E i, j \in RowsFor(s, r) :
              /\ commands[i].status = "executed"
              /\ commands[j].status = "pending"
              /\ commands[i].created_at = commands[j].created_at

\* C7: appending a directive for (s, r) whose created_at is strictly older
\* than that of a directive already in the log for (s, r) leaves the blocked
\* set of s unchanged.
C7_OlderInsertIgnored ==
    [][\A s \in Students, r \in Domains :
          (/\ Len(commands') = Len(commands) + 1
           /\ commands'[Len(commands')].student_id = s
           /\ commands'[Len(commands')].domain = r
           /\ \E i \in RowsFor(s, r) :
                 commands[i].created_at > commands'[Len(commands')].created_at)
          => get_currently_blocked_domains(s)' = get_currently_blocked_domains(s)]_vars

C7_OlderInsertedLater ==
    \E i, j \in 1..Len(commands) :
        /\ i < j
        /\ commands[i].student_id = commands[j].student_id
        /\ commands[i].domain = commands[j].domain
        /\ commands[i].created_at > commands[j].created_at
        /\ commands[i].action = "UNBLOCK_DOMAIN"
        /\ commands[j].action = "BLOCK_DOMAIN"

\* The step of an accepted enqueue: one new row at the end, fresh id, pending.
C8_EnqueueStep(s, d, action) ==
    /\ Len(commands') = Len(commands) + 1
    /\ SubSeq(commands', 1, Len(commands)) = commands
    /\ LET c == commands'[Len(commands')]
       IN /\ \A i \in 1..Len(commands) : commands[i].id # c.id
          /\ c.student_id = s /\ c.domain = d /\ c.action = action
          /\ c.status = "pending" /\ c.executed_at = {}

NeverSeen(s) == \A a \in activities : a.hostname # s

\* C8: a directive request with a student and a domain is never refused and
\* adds exactly one row, pending, with a fresh id, whatever rows the pair
\* already has and whether or not the student ever reported; a student that
\* never reported reads every row enqueued for it at its first poll.
C8_EnqueueAlwaysAccepted ==
    /\ [](\A s \in Students, d \in Domains :
             Len(commands) < MaxCommands =>
                 /\ ENABLED (/\ block_domain_on_student(s, d)
                             /\ C8_EnqueueStep(s, d, "BLOCK_DOMAIN"))
                 /\ ENABLED (/\ unblock_domain_on_student(s, d)
                             /\ C8_EnqueueStep(s, d, "UNBLOCK_DOMAIN")))
    /\ [][\A s \in Students, d \in Domains :
             /\ block_domain_on_student(s, d) => C8_EnqueueStep(s, d, "BLOCK_DOMAIN")
             /\ unblock_domain_on_student(s, d) => C8_EnqueueStep(s, d, "UNBLOCK_DOMAIN")]_vars
    /\ [][\A p \in Pollers, s \in Students :
             (/\ get_commands_select(p, s)
              /\ NeverSeen(s)
              /\ \A q \in Pollers : poll[q].student_id # s
              /\ \A i \in RowsOf(s) : deliveries[i] = 0)
             => {Selected(poll'[p])[i].id : i \in 1..Len(Selected(poll'[p]))} = RowsOf(s)]_vars

C8_DuplicateForUnseenDelivered ==
    \E s \in Students, r \in Domains :
        /\ NeverSeen(s)
        /\ \E i, j \in RowsFor(s, r) :
              /\ i < j
              /\ deliveries[i] = 1 /\ deliveries[j] = 1
              /\ \E t \in commands[i].executed_at : t < commands[j].created_at

\* C9: the command log is append-only: every row ever inserted is still in
\* the table with the student, action, domain, reason and created_at it was
\* inserted with.
C9_AppendOnly ==
    /\ Len(commands) = Len(issued)
    /\ \A i \in 1..Len(issued) : IssuedColumns(commands[i]) = issued[i]

C9_LogAfterAllOperations ==
    \E i, j \in 1..Len(commands) :
        /\ commands[i].action = "PING"
        /\ commands[j].action = "BLOCK_DOMAIN"
        /\ commands[i].status = "executed"
        /\ commands[i].executed_at # {commands[i].created_at}

\* C10: a row is marked delivered once: after its status is executed, no
\* step changes its status or its executed_at.
C10_DeliveredOnce ==
    [][\A i \in 1..Len(commands) :
          commands[i].status = "executed" =>
              /\ commands'[i].status = "executed"
              /\ commands'[i].executed_at = commands[i].executed_at]_vars

\* C11: a pending row stays pending through every step that is not the
\* marking step of a poll of the row's own student, whatever the clock shows,
\* and when every student keeps polling each row is eventually part of a
\* poll response.
C11_PendingUntilPolled ==
    /\ [][\A i \in 1..Len(commands) :
             (commands[i].status = "pending" /\ commands'[i].status # "pending")
             => \E p \in Pollers : /\ get_commands_mark(p)
                                   /\ poll[p].student_id = commands[i].student_id]_vars
    /\ \A i \in 1..MaxCommands :
           (Len(commands) >= i) ~> (Len(deliveries) >= i /\ deliveries[i] >= 1)

C11_OldDirectiveDelivered ==
    \E i, j \in 1..Len(commands) :
        /\ commands[i].student_id # commands[j].student_id
        /\ commands[i].created_at < now
        /\ commands[i].executed_at = {now}
        /\ deliveries[i] = 1
        /\ commands[j].status = "executed"
        /\ \E t \in commands[j].executed_at : t < now

\* The students that reported telemetry within the last h clock units.
ReportedWithin(h) ==
    {s \in Students : \E a \in activities : a.hostname = s /\ a.timestamp >= now - h}

\* The step of a broadcast that targets exactly the students of T.
C12_BroadcastStep(T, action, domain) ==
    LET new == (Len(commands) + 1)..Len(commands')
    IN /\ Len(commands') = Len(commands) + Cardinality(T)
       /\ SubSeq(commands', 1, Len(commands)) = commands
       /\ \A s \in T : Cardinality({i \in new : commands'[i].student_id = s}) = 1
       /\ \A i \in new : /\ commands'[i].student_id \in T
                          /\ commands'[i].status = "pending"
                          /\ commands'[i].action = action
                          /\ commands'[i].domain = domain
                          /\ commands'[i].id = i
       /\ T = {} => commands' = commands

C12_Result(T, action, domain, h) ==
    LET res == create_global_command_result(action, domain, h)
    IN /\ res.commands_created = Cardinality(T)
       /\ Len(res.students) = Cardinality(T)
       /\ {res.students[i] : i \in 1..Len(res.students)} = T

\* C12: a broadcast adds exactly one pending row for each student that
\* reported within the window and no other row, and reports that number and
\* those students; with no such student it reports 0 and the empty list and
\* the table is unchanged.
C12_BroadcastTargetsActive ==
    /\ [](\A a \in Actions, d \in Domains \cup {NULL}, h \in Hours :
             /\ C12_Result(ReportedWithin(h), a, d, h)
             /\ Len(commands) + Cardinality(ReportedWithin(h)) <= MaxCommands
                => ENABLED (/\ create_global_command(a, d, NULL, h)
                            /\ C12_BroadcastStep(ReportedWithin(h), a, d)))
    /\ [][\A a \in Actions, d \in Domains \cup {NULL}, h \in Hours :
             create_global_command(a, d, NULL, h)
             => C12_BroadcastStep(ReportedWithin(h), a, d)]_vars

C12_OneOfTwoTargeted ==
    /\ Cardinality({a.hostname : a \in activities}) = 2
    /\ \E i \in 1..Len(commands) :
          /\ commands[i].reason = NULL
          /\ commands[i].created_at = now
          /\ \A j \in 1..Len(commands) : j # i => commands[j].created_at < now
          /\ \E a \in activities : /\ a.hostname # commands[i].student_id
                                    /\ a.timestamp < now

\* C13: a BLOCK_DOMAIN or UNBLOCK_DOMAIN request without a domain is answered
\* with the validation error 400 and no row is added or changed.
C13_NoResourceRejected ==
    /\ [](\A s \in Students, d \in Falsy :
             /\ block_domain_on_student_response(s, d).status_code = 400
             /\ unblock_domain_on_student_response(s, d).status_code = 400
             /\ ENABLED (block_domain_on_student(s, d) /\ commands' = commands)
             /\ ENABLED (unblock_domain_on_student(s, d) /\ commands' = commands))
    /\ [][\A s \in Students, d \in Falsy :
             (block_domain_on_student(s, d) \/ unblock_domain_on_student(s, d))
             => commands' = commands]_vars
    /\ [](\A i \in 1..Len(commands) :
             commands[i].action \in {"BLOCK_DOMAIN", "UNBLOCK_DOMAIN"}
             => commands[i].domain \in Domains)

C13_RejectedWithRoom ==
    /\ Len(commands) = 1
    /\ commands[1].status = "executed"
    /\ \E s \in Students, d \in Falsy :
          /\ block_domain_on_student_response(s, d).status_code = 400
          /\ block_domain_on_student_response(s, "youtube.com").status_code = 200

\* The list `violations` check_violations has built for the snapshot when it
\* returns.
Findings ==
    LET checks == Checks(snapshot.processes, snapshot.bytes_sent,
                         snapshot.bytes_recv, snapshot.destinations,
                         snapshot.cpu_percent, snapshot.memory_percent,
                         snapshot.disk_percent, snapshot.upload_rate_kbps,
                         snapshot.download_rate_kbps)
    IN Violations(checks, Len(checks))

\* C14: a returned verdict has violation false if and only if it has no
\* findings (and no reason) if and only if its severity is low.
C14_VerdictConsistent ==
    verdict.returned =>
        /\ (verdict.violation = FALSE) <=> (Findings = <<>>)
        /\ (Findings = <<>>) <=> (verdict.reason = None)
        /\ (Findings = <<>>) <=> (verdict.severity = "low")

C14_MediumVerdict ==
    /\ verdict.returned
    /\ verdict.violation
    /\ verdict.severity = "medium"
    /\ Len(Findings) = 1

\* The severities the rules carry, in the order low < medium < high <
\* critical, and the rules in evaluation order: process, bandwidth, domain,
\* connection count, CPU, memory, disk, upload rate, download rate.
SeverityRank == <<"low", "medium", "high", "critical">>
RuleSeverity ==
    <<"high", "medium", "high", "medium", "medium", "medium", "medium", "high",
      "medium">>

\* Whether a rule's predicate holds on the snapshot under the settings.
RuleHolds(i) ==
    LET s == snapshot
        domains == {lower(Value(DestDomain(s.destinations[k]))) :
                       k \in 1..Len(s.destinations)}
    IN CASE i = 1 -> \E k \in 1..Len(s.processes), j \in 1..Len(settings.BLOCKED_KEYWORDS) :
                        Contains(lower(strip(settings.BLOCKED_KEYWORDS[j])),
                                 lower(s.processes[k]))
         [] i = 2 -> s.bytes_sent + s.bytes_recv
                        > settings.BANDWIDTH_THRESHOLD_MB * 1024 * 1024
         [] i = 3 -> \E d \in domains :
                        \/ d # <<>> /\ \E k \in 1..Len(SUSPICIOUS_DOMAINS) :
                                           Contains(SUSPICIOUS_DOMAINS[k], d)
                        \/ \E k \in 1..Len(settings.policies_blocked_domains) :
                               settings.policies_blocked_domains[k] = d
         [] i = 4 -> Len(s.destinations) > settings.CONNECTIONS_THRESHOLD
         [] i = 5 -> \E v \in s.cpu_percent : v > settings.CPU_THRESHOLD_PERCENT
         [] i = 6 -> \E v \in s.memory_percent : v > settings.MEMORY_THRESHOLD_PERCENT
         [] i = 7 -> \E v \in s.disk_percent : v > settings.DISK_THRESHOLD_PERCENT
         [] i = 8 -> \E v \in s.upload_rate_kbps :
                        v > settings.UPLOAD_RATE_THRESHOLD_MBPS * 1024
         [] i = 9 -> \E v \in s.download_rate_kbps :
                        v > settings.DOWNLOAD_RATE_THRESHOLD_MBPS * 1024

Triggering == {i \in 1..Len(RuleSeverity) : RuleHolds(i)}

\* C15: when at least one rule triggers, the severity of the returned
\* verdict is the highest severity among the triggering rules.
C15_SeverityIsMaximum ==
    (verdict.returned /\ Triggering # {}) =>
        /\ \E i \in Triggering : RuleSeverity[i] = verdict.severity
        /\ \A i \in Triggering :
               \E a, b \in 1..Len(SeverityRank) :
                   /\ SeverityRank[a] = RuleSeverity[i]
                   /\ SeverityRank[b] = verdict.severity
                   /\ a <= b

C15_HighBeforeMedium ==
    /\ verdict.returned
    /\ verdict.severity = "high"
    /\ 1 \in Triggering /\ 2 \in Triggering /\ 9 \in Triggering
    /\ 3 \notin Triggering /\ 8 \notin Triggering

\* What each rule appends for the snapshot, whether or not it is triggered.
Entry(i) ==
    Checks(snapshot.processes, snapshot.bytes_sent, snapshot.bytes_recv,
           snapshot.destinations, snapshot.cpu_percent, snapshot.memory_percent,
           snapshot.disk_percent, snapshot.upload_rate_kbps,
           snapshot.download_rate_kbps)[i].reason

\* The entries of the rules of 1..n whose predicate holds, in rule order.
RECURSIVE ExpectedFindings(_)
ExpectedFindings(n) ==
    IF n = 0 THEN <<>>
    ELSE ExpectedFindings(n - 1) \o (IF RuleHolds(n) THEN <<Entry(n)>> ELSE <<>>)

\* C16: the findings of a returned verdict are the entries of exactly the
\* rules whose predicate holds, one each, in the order process, bandwidth,
\* domain, connection count, CPU, memory, disk, upload rate, download rate,
\* and the reason is these entries joined with "; ".
C16_FindingsInRuleOrder ==
    verdict.returned =>
        LET expected == ExpectedFindings(Len(RuleSeverity))
        IN /\ Findings = expected
           /\ Len(Findings) = Cardinality(Triggering)
           /\ verdict.reason = IF expected = <<>> THEN None
                                ELSE {Join("; ", expected)}

C16_ThreeFindings ==
    /\ verdict.returned
    /\ Triggering = {2, 4, 7}
    /\ Len(Value(verdict.reason)) > Len(Entry(2)) + Len(Entry(4)) + Len(Entry(7))

\* The threshold rules: the measured value (None when absent) and the
\* configured threshold of rule i.
ThresholdRules == 4..9

Measured(i) ==
    CASE i = 4 -> {Len(snapshot.destinations)}
      [] i = 5 -> snapshot.cpu_percent
      [] i = 6 -> snapshot.memory_percent
      [] i = 7 -> snapshot.disk_percent
      [] i = 8 -> snapshot.upload_rate_kbps
      [] i = 9 -> snapshot.download_rate_kbps

Threshold(i) ==
    CASE i = 4 -> settings.CONNECTIONS_THRESHOLD
      [] i = 5 -> settings.CPU_THRESHOLD_PERCENT
      [] i = 6 -> settings.MEMORY_THRESHOLD_PERCENT
      [] i = 7 -> settings.DISK_THRESHOLD_PERCENT
      [] i = 8 -> settings.UPLOAD_RATE_THRESHOLD_MBPS * 1024
      [] i = 9 -> settings.DOWNLOAD_RATE_THRESHOLD_MBPS * 1024

\* Whether `entry` is among the findings.
Among(findings, entry) == \E k \in 1..Len(findings) : findings[k] = entry

\* C17: in a returned verdict each threshold rule has a finding if and only
\* if its value is present and strictly greater than its threshold; a value
\* equal to the threshold and an absent value give no finding.
C17_StrictThresholds ==
    verdict.returned =>
        LET findings == Findings
        IN \A i \in ThresholdRules :
               LET found == Among(findings, Entry(i))
               IN /\ found <=> (\E v \in Measured(i) : v > Threshold(i))
                  /\ Measured(i) = {Threshold(i)} => ~found
                  /\ Measured(i) = None => ~found

C17_EqualAbsentAbove ==
    /\ verdict.returned
    /\ Measured(5) = {Threshold(5)}
    /\ Measured(6) = None
    /\ Measured(4) = {Threshold(4) + 1}
    /\ Measured(8) = {Threshold(8) + 1}
    /\ Among(Findings, Entry(4)) /\ Among(Findings, Entry(8))
    /\ ~Among(Findings, Entry(5)) /\ ~Among(Findings, Entry(6))

\* The byte threshold of the bandwidth rule: thresholdMB * 1024 * 1024.
ByteThreshold == settings.BANDWIDTH_THRESHOLD_MB * 1024 * 1024

\* C18: in a returned verdict the bandwidth rule has a finding if and only if
\* bytes_sent + bytes_recv is strictly greater than the byte threshold,
\* whether or not a counter alone exceeds it; when it is the only triggering
\* rule the verdict is a violation of severity medium with that one finding,
\* and the ingest of a snapshot whose only triggering rule among those the
\* handler evaluates is the bandwidth rule records an alert of severity medium.
C18_BandwidthOnSum ==
    /\ verdict.returned =>
           LET findings == Findings
           IN /\ Among(findings, Entry(2))
                    <=> (snapshot.bytes_sent + snapshot.bytes_recv > ByteThreshold)
              /\ Triggering = {2} =>
                     /\ verdict.violation
                     /\ verdict.severity = "medium"
                     /\ findings = <<Entry(2)>>
    /\ (response.status_code = 201 /\ ~RuleHolds(1)) =>
           /\ response.violation_detected
                 <=> (snapshot.bytes_sent + snapshot.bytes_recv > ByteThreshold)
           /\ response.violation_detected =>
                  /\ Len(alerts) = 1
                  /\ alerts[1].severity = "medium"
                  /\ alerts[1].hostname = snapshot.hostname

C18_SumAboveCountersBelow ==
    /\ verdict.returned
    /\ response.status_code = 201
    /\ snapshot.bytes_sent <= ByteThreshold
    /\ snapshot.bytes_recv <= ByteThreshold
    /\ snapshot.bytes_sent + snapshot.bytes_recv > ByteThreshold
    /\ Triggering = {2}
    /\ verdict.severity = "medium"
    /\ response.violation_detected

\* A snapshot that gives no rule anything to report: no process name contains
\* a blocked keyword, no destinations, every optional metric absent, and the
\* byte total not above the threshold.
CleanSnapshot ==
    /\ ~RuleHolds(1)
    /\ snapshot.destinations = <<>>
    /\ snapshot.cpu_percent = None
    /\ snapshot.memory_percent = None
    /\ snapshot.disk_percent = None
    /\ snapshot.active_connections = None
    /\ snapshot.upload_rate_kbps = None
    /\ snapshot.download_rate_kbps = None
    /\ snapshot.bytes_sent + snapshot.bytes_recv <= ByteThreshold

\* C19: for a clean snapshot check_violations returns violation false,
\* severity low and no findings, and POST /activity accepts it (201,
\* success) without detecting a violation or creating an alert.
C19_CleanSnapshotPasses ==
    CleanSnapshot =>
        /\ verdict # NoVerdict =>
               /\ verdict.returned
               /\ verdict.violation = FALSE
               /\ verdict.severity = "low"
               /\ verdict.reason = None
               /\ verdict.violated_processes = <<>>
               /\ Findings = <<>>
        /\ response = NoResponse => ENABLED submit_activity_snapshot
        /\ response # NoResponse =>
               /\ response.status_code = 201
               /\ response.success
               /\ response.violation_detected = FALSE
               /\ response.alert_id = None
               /\ alerts = <<>>
               /\ Cardinality(activities) = 1

C19_CleanAtThreshold ==
    /\ CleanSnapshot
    /\ snapshot.processes # <<>>
    /\ snapshot.bytes_sent + snapshot.bytes_recv = ByteThreshold
    /\ verdict.returned
    /\ response.status_code = 201
    /\ alerts = <<>>

\* The positions of the process names that contain a configured blocked
\* keyword, compared without regard to case.
BlockedProcesses ==
    {k \in 1..Len(snapshot.processes) :
        \E j \in 1..Len(settings.BLOCKED_KEYWORDS) :
            Contains(lower(strip(settings.BLOCKED_KEYWORDS[j])),
                     lower(snapshot.processes[k]))}

\* C20: for a snapshot in which exactly one process name contains a blocked
\* keyword, whatever its other fields are, check_violations returns
\* violation true, severity high and that process among violated_processes,
\* and POST /activity creates an alert and returns its id.
C20_OneBlockedProcessFlagged ==
    Cardinality(BlockedProcesses) = 1 =>
        /\ verdict # NoVerdict =>
               /\ verdict.returned
               /\ verdict.violation
               /\ verdict.severity = "high"
               /\ \A k \in BlockedProcesses :
                      \E m \in 1..Len(verdict.violated_processes) :
                          verdict.violated_processes[m] = snapshot.processes[k]
        /\ response # NoResponse =>
               /\ response.status_code = 201
               /\ response.violation_detected
               /\ Len(alerts) = 1
               /\ response.alert_id = {alerts[1].id}
               /\ alerts[1].severity = "high"

\* The distinct domains among the destinations, compared in lower case, that
\* contain a suspicious keyword or are on the blocked-domain list.
MatchingDomains ==
    {d \in {lower(Value(DestDomain(snapshot.destinations[k]))) :
               k \in 1..Len(snapshot.destinations)} :
        \/ d # <<>> /\ \E k \in 1..Len(SUSPICIOUS_DOMAINS) :
                           Contains(SUSPICIOUS_DOMAINS[k], d)
        \/ \E k \in 1..Len(settings.policies_blocked_domains) :
               settings.policies_blocked_domains[k] = d}

\* A domain finding that names the domains of `named`, each either plainly
\* or marked as blocked by policy, and says that `more` further ones matched.
DomainFinding(named, marked, more) ==
    <<Text("Suspicious/blocked domain access detected: "),
      Format("set", {IF d \in marked THEN d \o <<" (blocked policy)">> ELSE d :
                        d \in named})>>
    \o (IF more > 0
        THEN <<Text(" (+"), Format("d", more), Text(" more)")>>
        ELSE <<>>)

\* C21: with d distinct matching domains among the destinations, the domain
\* finding of a returned verdict names min(d, 3) distinct domains and carries
\* "+N more" with N = d - 3 exactly when d > 3.
C21_DistinctDomainsNamed ==
    (verdict.returned /\ MatchingDomains # {}) =>
        LET d == Cardinality(MatchingDomains)
        IN \E named \in SUBSET MatchingDomains :
               /\ Cardinality(named) = IF d < 3 THEN d ELSE 3
               /\ \E marked \in SUBSET named :
                      Among(Findings,
                            DomainFinding(named, marked, IF d > 3 THEN d - 3 ELSE 0))

\* The positions of the destinations whose domain is absent: the key is
\* missing, or it is present with None as student_agent sends it.
Unresolved ==
    {k \in 1..Len(snapshot.destinations) :
        \/ "domain" \notin DOMAIN snapshot.destinations[k]
        \/ snapshot.destinations[k].domain = None}

\* Whether a resolved destination matches the suspicious keywords or the
\* blocked-domain list.
ResolvedMatch ==
    \E k \in (1..Len(snapshot.destinations)) \ Unresolved :
        LET d == lower(Value(snapshot.destinations[k].domain))
        IN \/ d # <<>> /\ \E j \in 1..Len(SUSPICIOUS_DOMAINS) :
                              Contains(SUSPICIOUS_DOMAINS[j], d)
           \/ \E j \in 1..Len(settings.policies_blocked_domains) :
                  settings.policies_blocked_domains[j] = d

\* C22: for a snapshot with an unresolved destination check_violations still
\* returns a verdict; the unresolved destination adds no domain match, and it
\* counts in the number of destinations compared with the maximum.
C22_UnresolvedSkippedButCounted ==
    (verdict # NoVerdict /\ Unresolved # {}) =>
        /\ verdict.returned
        /\ Among(Findings, Entry(3)) <=> ResolvedMatch
        /\ Among(Findings, Entry(4))
              <=> (Len(snapshot.destinations) > settings.CONNECTIONS_THRESHOLD)

\* Whether check_violations applied to the whole snapshot reported a violation.
Violated == verdict.returned /\ verdict.violation

\* C23: for an accepted snapshot, POST /activity creates an alert if and only
\* if check_violations applied to the whole snapshot (processes, byte
\* counters, destinations and every metric it carries) returns a violation;
\* the alert has the snapshot's hostname, the joined findings as reason, the
\* verdict's severity and status active, and the response reports the
\* violation with the alert's id.
C23_AlertIffWholeSnapshotViolates ==
    (response.status_code = 201 /\ verdict # NoVerdict) =>
        /\ response.violation_detected <=> Violated
        /\ Violated =>
               /\ Len(alerts) = 1
               /\ alerts[1].hostname = snapshot.hostname
               /\ alerts[1].reason = Value(verdict.reason)
               /\ alerts[1].severity = verdict.severity
               /\ alerts[1].status = "active"
               /\ response.alert_id = {alerts[1].id}
        /\ ~Violated => alerts = <<>> /\ response.alert_id = None

\* C24: an alert's status changes only from active to resolved, only in a
\* step of the administrator's resolve action on that alert, and a resolved
\* alert is never active again; alerts are never removed or renumbered.
C24_ActiveToResolvedOnly ==
    /\ [](\A i \in 1..Len(alerts) : alerts[i].status \in {"active", "resolved"})
    /\ [][/\ Len(alerts') >= Len(alerts)
          /\ \A i \in 1..Len(alerts) :
                 /\ alerts'[i].id = alerts[i].id
                 /\ alerts[i].status = "resolved" => alerts'[i].status = "resolved"
                 /\ alerts'[i].status # alerts[i].status =>
                        /\ alerts[i].status = "active"
                        /\ alerts'[i].status = "resolved"
                        /\ resolve_alert_route(alerts[i].id)]_vars

C24_ResolvedStaysResolved ==
    /\ Len(alerts) = 2
    /\ alerts[1].status = "resolved"
    /\ alerts[1].resolved_at = {0}
    /\ now = 1
    /\ alerts[2].status = "active"
    /\ alerts[2].hostname = alerts[1].hostname
    /\ alerts[2].reason = alerts[1].reason

\* A step in which POST /activity accepts a snapshot that triggers the
\* process rule or the bandwidth rule.
ViolatingIngest ==
    /\ response = NoResponse
    /\ response'.status_code = 201
    /\ RuleHolds(1) \/ RuleHolds(2)

NotResolvable ==
    {alert_id \in 1..(MaxActivities + 1) :
        \A i \in 1..Len(alerts) :
            alerts[i].id = alert_id => alerts[i].status = "resolved"}

\* C26: resolving an id that does not exist or whose alert is already
\* resolved answers 404 and changes no alert; a resolved alert keeps its
\* resolved_at, status, reason and severity in every later step.
C26_FailedResolveChangesNothing ==
    /\ [](\A alert_id \in NotResolvable :
              /\ resolve_alert_response(alert_id).status_code = 404
              /\ ENABLED (resolve_alert_route(alert_id) /\ alerts' = alerts))
    /\ [][\A alert_id \in NotResolvable :
              resolve_alert_route(alert_id) => alerts' = alerts]_vars
    /\ [][\A i \in 1..Len(alerts) :
              alerts[i].status = "resolved" => alerts'[i] = alerts[i]]_vars

C26_ResolvedEarlierAndUnknownId ==
    /\ Len(alerts) = 1
    /\ alerts[1].status = "resolved"
    /\ alerts[1].resolved_at = {0}
    /\ now = 1
    /\ NotResolvable = 1..(MaxActivities + 1)
    /\ resolve_alert_response(1).status_code = 404
    /\ resolve_alert_response(2).status_code = 404

\* A step in which POST /activity answers 500 after the alert insertion
\* failed.
AlertInsertionFails ==
    /\ response = NoResponse
    /\ response'.status_code = 500

\* C27: when the snapshot insertion of an ingest succeeds and the alert
\* insertion fails, the snapshot is stored, no alert is created, the caller
\* gets a failure, and every other stored snapshot, alert and directive is
\* as before.
C27_SnapshotKeptAlertLost ==
    [][AlertInsertionFails =>
           /\ \E a \in activities' \ activities :
                  /\ activities' = activities \cup {a}
                  /\ a.hostname = snapshot.hostname
                  /\ \A i \in 1..Len(alerts') : alerts'[i].activity_id # a.id
           /\ alerts' = alerts
           /\ commands' = commands
           /\ ~("success" \in DOMAIN response')]_vars

C27_SecondSnapshotWithoutAlert ==
    /\ response.status_code = 500
    /\ Cardinality(activities) = 2
    /\ Len(alerts) = 1
    /\ alerts[1].activity_id = 1
    /\ Len(commands) >= 1

\* C28: on a snapshot with only process names and byte counters the
\* multi-rule and the two-rule detector return the same violation flag,
\* reason and violated processes; their severities are equal unless the
\* process rule and the bandwidth rule both trigger, where the two-rule
\* detector returns critical and the multi-rule detector high.
C28_DetectorsAgree ==
    (verdict # NoVerdict /\ verdict_member3 # NoVerdict) =>
        /\ verdict.returned /\ verdict_member3.returned
        /\ verdict.violation = verdict_member3.violation
        /\ verdict.reason = verdict_member3.reason
        /\ verdict.violated_processes = verdict_member3.violated_processes
        /\ IF RuleHolds(1) /\ RuleHolds(2)
           THEN verdict_member3.severity = "critical" /\ verdict.severity = "high"
           ELSE verdict.severity = verdict_member3.severity

C28_CriticalAgainstHigh ==
    /\ verdict.returned /\ verdict_member3.returned
    /\ RuleHolds(1) /\ RuleHolds(2)
    /\ verdict_member3.severity = "critical"
    /\ verdict.severity = "high"
    /\ verdict.reason = verdict_member3.reason
    /\ Len(verdict.violated_processes) = 2

\* The entries of the process list at the positions of BlockedProcesses up
\* to n, in input order.
RECURSIVE ExpectedFlagged(_)
ExpectedFlagged(n) ==
    IF n = 0 THEN <<>>
    ELSE ExpectedFlagged(n - 1)
         \o (IF n \in BlockedProcesses THEN <<snapshot.processes[n]>> ELSE <<>>)

\* C29: violated_processes of a returned verdict holds exactly the entries of
\* the process list that contain a blocked keyword without regard to case,
\* in input order, each entry once however many keywords it contains; it is
\* empty when the list is empty or nothing matches.
C29_FlaggedProcessesExact ==
    verdict.returned =>
        /\ verdict.violated_processes = ExpectedFlagged(Len(snapshot.processes))
        /\ Len(verdict.violated_processes) = Cardinality(BlockedProcesses)
        /\ BlockedProcesses = {} => verdict.violated_processes = <<>>

C29_TwoKeywordsOneEntry ==
    /\ verdict.returned
    /\ Len(snapshot.processes) = 3
    /\ BlockedProcesses = {1, 3}
    /\ verdict.violated_processes = <<snapshot.processes[1], snapshot.processes[3]>>
    /\ \A j \in 1..Len(settings.BLOCKED_KEYWORDS) :
           Contains(lower(strip(settings.BLOCKED_KEYWORDS[j])),
                    lower(snapshot.processes[3]))
    /\ Len(settings.BLOCKED_KEYWORDS) = 2

\* C30 as stated: the rows of one poll response are in ascending id, the
\* order in which they were enqueued.
C30_ResponseInEnqueueOrder ==
    \A p \in Pollers :
        LET rows == Selected(poll[p])
        IN \A i, j \in 1..Len(rows) : i < j => rows[i].id < rows[j].id

\* C30: the rows of one poll response are in ascending created_at, and rows
\* of equal created_at in ascending id; a row enqueued after the clock was
\* set back has the older created_at and comes first.
C30_ResponseByCreatedAtThenId ==
    \A p \in Pollers :
        LET rows == Selected(poll[p])
        IN \A i, j \in 1..Len(rows) :
               i < j =>
                   \/ rows[i].created_at < rows[j].created_at
                   \/ /\ rows[i].created_at = rows[j].created_at
                      /\ rows[i].id < rows[j].id

C30_SameSecondInIdOrder ==
    \E p \in Pollers :
        LET rows == Selected(poll[p])
        IN /\ Len(rows) = 2
           /\ rows[1].created_at = rows[2].created_at
           /\ rows[1].id = 1 /\ rows[2].id = 2

\* The domains for which the machine of student s holds a block rule.
EndpointBlocked(s) ==
    {d \in Domains : \E ip \in getaddrinfo[d] : rule_name(d, ip) \in firewall[s]}

\* Student s has no poll under way and no pending directive.
Settled(s) ==
    /\ PendingIds(s) = {}
    /\ \A p \in Pollers : poll[p].student_id # s

\* C31: once an agent that polls sequentially and executes every command of
\* every answer in order has nothing pending and no poll under way, the
\* domains its machine blocks are the domains the server reports as
\* currently blocked for it.
C31_EndpointMatchesServer ==
    \A s \in Students :
        Settled(s) => EndpointBlocked(s) = get_currently_blocked_domains(s)

\* Poll p has read row i and has not returned yet.
HeldBy(p, i) ==
    /\ poll[p].pc = "marking"
    /\ \E k \in 1..Len(poll[p].commands) : poll[p].commands[k].id = i

C33_DrainTouchesOwnEndpointOnly ==
    [][\A p \in Pollers :
          /\ \A s \in Students :
                get_commands_select(p, s)
                => /\ commands' = commands
                   /\ \A k \in 1..Len(Selected(poll'[p])) :
                         /\ Selected(poll'[p])[k].student_id = s
                         /\ commands[Selected(poll'[p])[k].id].student_id = s
          /\ get_commands_mark(p)
             => /\ \A i \in 1..Len(commands) :
                      commands[i].student_id # poll[p].student_id
                      => /\ commands'[i].status = commands[i].status
                         /\ commands'[i].executed_at = commands[i].executed_at
                /\ \A i \in 1..Len(deliveries) :
                      deliveries'[i] # deliveries[i]
                      => commands[i].student_id = poll[p].student_id]_vars

\* A row of one student was delivered while a row of another student, in
\* the table before that delivery, is still pending and undelivered.
C33_OtherEndpointStillPending ==
    \E i, j \in 1..Len(commands) :
        /\ commands[i].student_id # commands[j].student_id
        /\ commands[i].status = "executed" /\ deliveries[i] >= 1
        /\ commands[j].status = "pending" /\ deliveries[j] = 0
        /\ commands[j].executed_at = {}
        /\ \A t \in commands[i].executed_at : commands[j].created_at < t

\* C34: no step of a poll changes the blocked set of any student, and a
\* step that inserts rows changes the blocked set of no student that is not
\* the target of one of the inserted rows.
C34_BlockedSetIndependentOfDelivery ==
    [][/\ \A p \in Pollers :
             (get_commands_mark(p) \/ \E s \in Students : get_commands_select(p, s))
             => \A s \in Students :
                    get_currently_blocked_domains(s)' = get_currently_blocked_domains(s)
       /\ Len(commands') > Len(commands)
          => \A s \in Students :
                 (\A i \in (Len(commands) + 1)..Len(commands') : commands'[i].student_id # s)
                 => get_currently_blocked_domains(s)' = get_currently_blocked_domains(s)]_vars

\* A domain is blocked for a student by a delivered row while a broadcast
\* that reached another student only has unblocked the same domain there.
C34_DeliveredBlockOtherUnblocked ==
    \E s \in Students, r \in Domains :
        /\ r \in get_currently_blocked_domains(s)
        /\ \E i \in RowsFor(s, r) : commands[i].status = "executed" /\ deliveries[i] >= 1
        /\ \E j \in 1..Len(commands) :
              /\ commands[j].student_id # s
              /\ commands[j].domain = r
              /\ commands[j].action = "UNBLOCK_DOMAIN"
              /\ commands[j].reason = NULL
              /\ j > CHOOSE i \in RowsFor(s, r) : TRUE

\* C35: the severity of a verdict the multi-rule detector returns is low,
\* medium or high, never critical.
C35_NeverCritical ==
    verdict.returned => verdict.severity \in {"low", "medium", "high"}

\* The process rule and the domain rule, both of severity high, trigger on
\* the same snapshot and the verdict is high.
C35_TwoHighRulesStillHigh ==
    /\ verdict.returned
    /\ verdict.severity = "high"
    /\ 1 \in Triggering /\ 3 \in Triggering

\* Both requests of a run were for the same alert, which was active when
\* each of them arrived, they overlapped, and both have been answered.
BothAnswered ==
    /\ \A r \in Resolvers :
          resolves[r].pc = "done" /\ resolves[r].concurrent /\ resolves[r].was_active
    /\ resolves[1].alert_id = resolves[2].alert_id

\* C36: of two overlapping resolve requests for the same active alert, one
\* is answered 200 and the other 404; the alert is then resolved, and the
\* request answered 404 leaves the alert table, and with it the resolved_at
\* the first one wrote, as it was.
C36_OneResolveSucceeds ==
    /\ [](BothAnswered =>
            /\ {resolves[r].status_code : r \in Resolvers} = {200, 404}
            /\ \E i \in 1..Len(alerts) :
                  /\ alerts[i].id = resolves[1].alert_id
                  /\ alerts[i].status = "resolved"
                  /\ Cardinality(alerts[i].resolved_at) = 1)
    /\ [][\A r \in Resolvers :
             (resolve_alert_answer(r) /\ resolves'[r].status_code = 404)
             => alerts' = alerts]_vars

\* Both overlapping requests have been answered, the second one at a later
\* clock value than the resolved_at of the alert.
C36_LoserAnsweredLater ==
    /\ BothAnswered
    /\ \E i \in 1..Len(alerts) :
          /\ alerts[i].id = resolves[1].alert_id
          /\ \A t \in alerts[i].resolved_at : t < now

\* C37: every row of the alerts table has status active or resolved, and
\* its resolved_at is set exactly when the status is resolved.
C37_ResolvedAtIffResolved ==
    \A i \in 1..Len(alerts) :
        /\ alerts[i].status \in {"active", "resolved"}
        /\ (alerts[i].resolved_at # None) <=> (alerts[i].status = "resolved")

\* The table holds a resolved alert, with its resolved_at, beside an active
\* one inserted after the first was resolved.
C37_ResolvedBesideActive ==
    \E i, j \in 1..Len(alerts) :
        /\ alerts[i].status = "resolved" /\ alerts[i].resolved_at # None
        /\ alerts[j].status = "active" /\ alerts[j].resolved_at = None
        /\ \A t \in alerts[i].resolved_at : t < alerts[j].timestamp

\* C38: when the agent of a student executes the commands of an answer,
\* every block rule on the machine whose domain is not the domain of an
\* UNBLOCK_DOMAIN command of that answer is still in place afterwards.
C38_UnblockKeepsOtherDomains ==
    [][\A p \in Pollers :
          main(p)
          => LET s == poll[p].student_id
                 unblocked == {poll[p].commands[k].domain :
                                  k \in {n \in 1..Len(poll[p].commands) :
                                            poll[p].commands[n].action = "UNBLOCK_DOMAIN"}}
             IN \A d \in Domains \ unblocked : \A ip \in getaddrinfo[d] :
                    rule_name(d, ip) \in firewall[s] => rule_name(d, ip) \in firewall'[s]]_vars

\* C39: after any sequence of add-blocked, add-allowed and remove requests
\* on policy lists that start empty, no domain is in both lists and neither
\* list holds a domain twice.
C39_PolicyListsDisjointNoDuplicates ==
    /\ \A i \in 1..Len(policies.allowed_domains) :
           ~In(policies.allowed_domains[i], policies.blocked_domains)
    /\ \A i, j \in 1..Len(policies.allowed_domains) :
           i # j => policies.allowed_domains[i] # policies.allowed_domains[j]
    /\ \A i, j \in 1..Len(policies.blocked_domains) :
           i # j => policies.blocked_domains[i] # policies.blocked_domains[j]

====
